---- MODULE Spec2Model ----
(***************************************************************************)
(* A model of the RAG orchestration engine of backend/ai_core.py:          *)
(* the round-robin backend selector (get_next_ollama_base_url), retrieval  *)
(* (perform_rag_search) and the chat orchestrator                          *)
(* (process_chat_query_with_rag_and_history), with the message store of    *)
(* backend/database.py.                                                    *)
(***************************************************************************)
EXTENDS Integers, Sequences, FiniteSets, TLC

(***************************************************************************)
(* Bounds of the model.                                                    *)
(***************************************************************************)
\* Longest endpoint pool drawn for OLLAMA_BASE_URLS.
MaxPool == 3
\* Calls of get_next_ollama_base_url each thread makes.
MaxCalls == 4

\* Largest RAG_CHUNK_K drawn (config.py:73 reads it from the environment).
MaxK == 2
\* Largest MULTI_QUERY_COUNT drawn (config.py:75 reads it from the environment).
MaxMultiQuery == 1
\* Distance scores are 1..MaxScore (lower is nearer).
MaxScore == 2
\* Chat requests served in one behaviour.
MaxRequests == 2
\* SUMMARY_BUFFER_TOKEN_LIMIT is drawn from MinTokenLimit..MaxTokenLimit
\* (config.py:81 reads it from the environment); a message weighs one unit.
MinTokenLimit == 2
MaxTokenLimit == 3
\* Largest MULTI_QUERY_COUNT drawn for generate_sub_queries on its own.
MaxSubQueryCount == 2
\* Most lines of a model output drawn for generate_sub_queries on its own.
MaxLines == 3

\* Python's None.
None == "None"

\* Program constants.
GENERAL_QUERY_PLACEHOLDER == "No document provided for context."
RAG_SEARCH_K_PER_QUERY == 3
fetch_k_multiplier == 3
NO_CONTEXT_TEXT == "No relevant context was found in your accessible documents."

\* Users (owners) and the documents that may have been uploaded: the file
\* name that upload_file stores (app.py:342, unique per upload) and the
\* number of chunks its text splits into.
Users == {"u1", "u2"}
Documents == <<[source |-> "a.pdf", chunks |-> 2], [source |-> "b.pdf", chunks |-> 1]>>
Sources == {Documents[i].source : i \in 1..Len(Documents)}

\* Questions a caller may pass; the last two are blank (empty, whitespace).
Queries == {"what is x", "", " "}
\* Outcomes of the model call of generate_sub_queries: it raises, or it
\* returns text, given as its lines.
SubQueryResponses ==
    {[raised |-> TRUE, lines |-> <<>>],
     [raised |-> FALSE, lines |-> <<>>],
     [raised |-> FALSE, lines |-> <<" ">>],
     [raised |-> FALSE, lines |-> <<" about x ">>],
     [raised |-> FALSE, lines |-> <<"what is x", "about x">>]}

\* Endpoint URLs a pool may hold; config.py:25-30 lists the same URL more
\* than once, so a pool may repeat an endpoint.
Endpoints == {"http://h1:11434", "http://h2:11434"}

\* Request threads of the server (waitress serves with several threads).
Threads == {"t1", "t2"}

VARIABLES
    \* ---- backend selector (ai_core.py:76-105) ----
    OLLAMA_BASE_URLS,               \* the configured pool (a sequence)
    last_used_ollama_url_index,     \* the module-level cursor
    sel_threads,                    \* the threads that call the selector
    sel_pc,                         \* per thread: position inside the call
    sel_loaded,                     \* per thread: cursor value read on line 95
    sel_own,                        \* per thread: cursor value it wrote on line 95
    sel_calls,                      \* per thread: calls completed
    sel_log,                        \* completed calls, in order of return
    \* ---- configuration and AI components ----
    RAG_CHUNK_K,                    \* config.py:73
    MULTI_QUERY_COUNT,              \* config.py:75
    llm_ready,                      \* ai_core.llm is not None
    SUB_QUERY_PROMPT_TEMPLATE,      \* config.py:94: its input_variables
    vector_index,                   \* the passages of ai_core.vector_store, in insertion order
    \* ---- one call of perform_rag_search (ai_core.py:528-627) ----
    rag_pc,                         \* "idle", "search" (inside the loop of 554), "done"
    rag_query,                      \* query
    rag_user,                       \* user_id_for_filter
    rag_filter,                     \* document_filter as passed by the caller
    search_queries,                 \* line 549
    q_idx,                          \* sub-queries searched so far
    q_failed,                       \* sub-queries whose search raised
    all_retrieved_docs_with_scores, \* line 550
    final_context_docs_with_scores, \* line 603
    context_docs,                   \* returned passages
    formatted_context_text,         \* returned context text (blocks, or a fixed text)
    context_docs_map,               \* returned context map
    \* ---- the message store (database.py) ----
    db_messages,                    \* the messages collection, in order of insertion
    db_summaries,                   \* (user, thread) -> stored thread summary
    \* ---- one call of process_chat_query_with_rag_and_history (ai_core.py:651-854) ----
    SUMMARY_BUFFER_TOKEN_LIMIT,     \* config.py:81
    n_requests,                     \* calls started so far
    req_pc,                         \* position inside the call
    req_user_id,                    \* user_id
    req_thread_id,                  \* thread_id
    req_query,                      \* query
    req_document_filter,            \* document_filter
    requires_cot,                   \* line 673
    memory_messages,                \* memory.chat_memory.messages
    moving_summary_buffer,          \* memory.moving_summary_buffer
    chat_history_for_prompt,        \* line 698
    context_text,                   \* line 700 / 721
    req_context_docs_map,           \* the orchestrator's context_docs_map, line 701 / 721
    final_prompt,                   \* the prompt handed to the answering model
    response_message,               \* response_message / bot_answer
    thinking_content_str,           \* line 828
    full_llm_response,              \* line 823: the output of the answering model
    req_result,                     \* how the call ended: the returned tuple, or raised
    req_failure,                    \* the backend failure met after the prompt was built
    n_model_calls,                  \* invocations of the answering model in this call
    n_selector_calls,               \* calls of get_next_ollama_base_url in this call
    req_retrieved,                  \* perform_rag_search was called in this call
    req_had_candidate,              \* it collected a passage of the user and the document
    \* ---- one call of generate_sub_queries (ai_core.py:485-525) on its own ----
    sq_pc,                          \* "idle", "done"
    sq_query,                       \* query
    sq_response,                    \* the outcome of the model call of line 506
    sq_result,                      \* the list returned
    \* ---- concurrent requests on one conversation thread ----
    conc_pc,                        \* per request thread: position in the orchestrator
    conc_general,                   \* line 704: is_general_query_mode
    conc_query,                     \* the question
    conc_raw_message_history,       \* line 680
    conc_thread_summary,            \* line 688
    conc_memory_messages,           \* memory.chat_memory.messages
    conc_moving_summary_buffer,     \* memory.moving_summary_buffer
    conc_response_message,          \* the answer of the request
    \* ---- the cache of document texts (ai_core.py:72) ----
    document_texts_cache,           \* {user_id: {filename: text}}
    cache_call,                     \* per request thread: its call on the cache
    \* ---- documents ----
    db_documents,                   \* the document records: (user, file name)
    upload_call                     \* per request thread: its upload

cfgVars == <<RAG_CHUNK_K, MULTI_QUERY_COUNT, llm_ready, SUB_QUERY_PROMPT_TEMPLATE,
             vector_index>>

ragVars == <<rag_pc, rag_query, rag_user, rag_filter, search_queries, q_idx, q_failed,
             all_retrieved_docs_with_scores, final_context_docs_with_scores,
             context_docs, formatted_context_text, context_docs_map>>

selVars == <<OLLAMA_BASE_URLS, last_used_ollama_url_index, sel_threads, sel_pc,
             sel_loaded, sel_own, sel_calls, sel_log>>

storeVars == <<db_messages, db_summaries>>

reqVars == <<SUMMARY_BUFFER_TOKEN_LIMIT, n_requests, req_pc, req_user_id, req_thread_id,
             req_query, req_document_filter, requires_cot, memory_messages,
             moving_summary_buffer, chat_history_for_prompt, context_text,
             req_context_docs_map, final_prompt, response_message,
             thinking_content_str, full_llm_response, req_result, req_failure,
             n_model_calls, n_selector_calls,
             req_retrieved, req_had_candidate>>

chatVars == <<storeVars, reqVars>>

sqVars == <<sq_pc, sq_query, sq_response, sq_result>>

concVars == <<conc_pc, conc_general, conc_query, conc_raw_message_history,
              conc_thread_summary, conc_memory_messages, conc_moving_summary_buffer,
              conc_response_message>>

cacheVars == <<document_texts_cache, cache_call>>

uploadVars == <<db_documents, upload_call>>

\* What the selector, retrieval and the orchestrator leave alone.
sideVars == <<sqVars, concVars, cacheVars, uploadVars>>

otherThanSel == <<cfgVars, ragVars, chatVars, sideVars>>
otherThanRag == <<selVars, chatVars, sideVars>>

vars == <<selVars, cfgVars, ragVars, chatVars, sideVars>>

(***************************************************************************)
(* Helpers.                                                                *)
(***************************************************************************)
\* All sequences over S of length 0..n.
SeqsUpTo(S, n) == UNION {[1..k -> S] : k \in 0..n}

\* Python's a % b for b > 0 (the result has the sign of b).
PyMod(a, b) == a % b

(***************************************************************************)
(* The vector index.  upload_file (app.py:383-394) chunks a document with  *)
(* create_chunks_from_text (ai_core.py:408-432), which gives chunk i the   *)
(* metadata source = file name, user_id = uploader, chunk_index = i, and   *)
(* appends the chunks to the index (add_documents_to_vector_store,         *)
(* ai_core.py:438-481).                                                    *)
(***************************************************************************)
Passage(s, i, u) ==
    [source |-> s, chunk_index |-> i, user_id |-> u, page_content |-> <<"text of", s, i>>]

\* The chunks of document d uploaded by u (none when u is None: not uploaded).
create_chunks_from_text(d, u) ==
    IF u = None THEN <<>> ELSE [i \in 1..d.chunks |-> Passage(d.source, i - 1, u)]

\* The index after the first n documents were uploaded by owners[1..n].
RECURSIVE add_documents_to_vector_store(_, _)
add_documents_to_vector_store(owners, n) ==
    IF n = 0 THEN <<>>
    ELSE add_documents_to_vector_store(owners, n - 1)
             \o create_chunks_from_text(Documents[n], owners[n])

IndexChoices ==
    {add_documents_to_vector_store(o, Len(Documents)) :
        o \in [1..Len(Documents) -> Users \cup {None}]}

(***************************************************************************)
(* Helpers on sequences.                                                   *)
(***************************************************************************)
Min(a, b) == IF a < b THEN a ELSE b
Max(a, b) == IF a > b THEN a ELSE b

\* Python's seq[:k] for k >= 0.
Take(seq, k) == SubSeq(seq, 1, Min(k, Len(seq)))

Front(seq) == SubSeq(seq, 1, Len(seq) - 1)

\* A sort that leaves the candidates in the order they were collected.
RECURSIVE SortByScore_Unsorted(_)
SortByScore_Unsorted(seq) ==
    IF seq = <<>> THEN <<>> ELSE Append(SortByScore_Unsorted(Front(seq)), seq[Len(seq)])

\* Python's sorted(seq, key=score): ascending and stable.
RECURSIVE SortByScore(_)
SortByScore(seq) ==
    IF seq = <<>> THEN <<>>
    ELSE LET sorted == SortByScore(Front(seq))
             x == seq[Len(seq)]
             n == Cardinality({i \in 1..Len(sorted) : sorted[i].score <= x.score})
         IN SubSeq(sorted, 1, n) \o <<x>> \o SubSeq(sorted, n + 1, Len(sorted))

\* A deduplication that keeps every occurrence.
DedupKeepFirst_KeepAll(seq) == seq

\* Python's list(dict.fromkeys(seq)): first occurrences, in order.
RECURSIVE DedupKeepFirst(_)
DedupKeepFirst(seq) ==
    IF seq = <<>> THEN <<>>
    ELSE LET front == DedupKeepFirst(Front(seq))
             last == seq[Len(seq)]
         IN IF \E i \in 1..Len(front) : front[i] = last THEN front
            ELSE Append(front, last)

\* A strip that removes nothing.
Strip_Keep(str) == str

\* Python's str.strip() on the strings of the model.
Strip(str) ==
    CASE str = " " -> ""
      [] str = " about x " -> "about x"
      [] OTHER -> str

\* config.py:95: the input variables of the sub-query prompt template, and
\* the set line 498 expects.
WellFormedTemplate == {"query", "num_queries"}

(***************************************************************************)
(* generate_sub_queries, ai_core.py:485-525.  `resp` is the outcome of the *)
(* model call of line 506.                                                 *)
(***************************************************************************)
generate_sub_queries(query, resp) ==
    IF ~llm_ready THEN <<query>>
    ELSE IF MULTI_QUERY_COUNT <= 0 THEN <<query>>
    ELSE IF SUB_QUERY_PROMPT_TEMPLATE # WellFormedTemplate THEN <<query>>
    ELSE IF resp.raised THEN <<query>>
    ELSE LET stripped == [i \in 1..Len(resp.lines) |-> Strip(resp.lines[i])]
             sub_queries == SelectSeq(stripped, LAMBDA l : l # "")
         IN IF sub_queries # <<>>
            THEN Take(DedupKeepFirst(<<query>> \o sub_queries), MULTI_QUERY_COUNT + 1)
            ELSE <<query>>

(***************************************************************************)
(* perform_rag_search, ai_core.py:528-627.                                 *)
(***************************************************************************)
\* line 552
k_per_query == Max(RAG_SEARCH_K_PER_QUERY, 1) * fetch_k_multiplier

\* vector_store.similarity_search_with_score (line 557): the k nearest
\* passages with their distances, nearest first; dist[i] is the distance of
\* the i-th indexed passage from the query.
similarity_search_with_score(dist, k) ==
    Take(SortByScore([i \in 1..Len(vector_index) |->
                         [doc |-> vector_index[i], score |-> dist[i]]]), k)

\* lines 537-538: the placeholder means no document filter.
EffectiveFilter(document_filter) ==
    IF document_filter = GENERAL_QUERY_PLACEHOLDER THEN None ELSE document_filter

\* Python's truth value of an Optional[str].
Truthy(str) == str # None /\ str # ""

\* An owner test that lets every passage through.
OwnerMatches_Any(doc, user_id_for_filter) == TRUE

\* line 580: the passage belongs to the requesting user.
OwnerMatches(doc, user_id_for_filter) == doc.user_id = user_id_for_filter

\* A document test that lets every source through.
SourceMatches_Any(doc, document_filter) == TRUE

\* line 584: the passage is of the targeted document, if one is targeted.
SourceMatches(doc, document_filter) ==
    ~(Truthy(document_filter) /\ doc.source # document_filter)

\* line 588
DocKey(doc) == <<doc.source, doc.chunk_index, doc.user_id>>

\* A replacement test that keeps the candidate seen last.
ReplacesKept_Last(score, kept_score) == TRUE

\* line 589: a later candidate replaces the kept one only with a lower score.
ReplacesKept(score, kept_score) == score < kept_score

\* lines 567-590: unique_docs_dict, as its entries in insertion order.
RECURSIVE UniqueDocs(_, _, _)
UniqueDocs(cands, user_id_for_filter, document_filter) ==
    IF cands = <<>> THEN <<>>
    ELSE LET rest == UniqueDocs(Front(cands), user_id_for_filter, document_filter)
             c == cands[Len(cands)]
             at == {i \in 1..Len(rest) : rest[i].key = DocKey(c.doc)}
             entry == [key |-> DocKey(c.doc), doc |-> c.doc, score |-> c.score]
         IN IF ~OwnerMatches(c.doc, user_id_for_filter) THEN rest
            ELSE IF ~SourceMatches(c.doc, document_filter) THEN rest
            ELSE IF at = {} THEN Append(rest, entry)
            ELSE LET i == CHOOSE i \in at : TRUE
                 IN IF ReplacesKept(c.score, rest[i].score)
                    THEN [rest EXCEPT ![i] = entry]
                    ELSE rest

\* A numbering that starts at 0.
CitationIndex_ZeroBased(i) == i

\* line 610: citation_index of the passage at position i (0-based).
CitationIndex(i) == i + 1

\* lines 607-616: one context block / map entry per returned passage.
ContextParts(docs) ==
    [j \in 1..Len(docs) |->
        [citation_index |-> CitationIndex(j - 1), source |-> docs[j].source,
         chunk_index |-> docs[j].chunk_index, content |-> docs[j].page_content]]

TempMap(docs) ==
    [n \in {CitationIndex(j - 1) : j \in 1..Len(docs)} |->
        LET j == CHOOSE j \in 1..Len(docs) : CitationIndex(j - 1) = n
        IN [source |-> docs[j].source, chunk_index |-> docs[j].chunk_index,
            content |-> docs[j].page_content]]

\* Python's {}.
EmptyMap == <<>>

\* A context text is one of the fixed texts, or the blocks of line 614
\* joined by the separator of line 618.
FixedText(text) == [fixed |-> text, blocks |-> <<>>]
JoinedBlocks(parts) == [fixed |-> None, blocks |-> parts]

\* line 597
DocNotEnoughText(document_filter) ==
    "The document '" \o document_filter
        \o "' does not contain enough information to answer your question."

\* lines 563-627: what the call returns once every sub-query was searched.
RagResult(cands, user_id_for_filter, document_filter, k) ==
    LET empty(text) ==
            [scored |-> <<>>, docs |-> <<>>, text |-> FixedText(text), map |-> EmptyMap]
        unique == UniqueDocs(cands, user_id_for_filter, document_filter)
        scored == Take(SortByScore(unique), k)
        docs == [j \in 1..Len(scored) |-> scored[j].doc]
    IN IF cands = <<>> THEN empty(NO_CONTEXT_TEXT)
       ELSE IF unique = <<>>
       THEN IF Truthy(document_filter)
            THEN empty(DocNotEnoughText(document_filter))
            ELSE empty(NO_CONTEXT_TEXT)
       ELSE [scored |-> scored, docs |-> docs,
             text |-> IF docs # <<>> THEN JoinedBlocks(ContextParts(docs))
                      ELSE FixedText(NO_CONTEXT_TEXT),
             map |-> TempMap(docs)]

\* lines 528-553: the call, up to the loop over the sub-queries.
RagCall(query, user_id_for_filter, document_filter, resp) ==
    /\ rag_pc = "idle"
    /\ rag_query' = query
    /\ rag_user' = user_id_for_filter
    /\ rag_filter' = document_filter
    /\ q_idx' = 0
    /\ q_failed' = {}
    /\ all_retrieved_docs_with_scores' = <<>>
    /\ final_context_docs_with_scores' = <<>>
    /\ context_docs' = <<>>
    /\ context_docs_map' = EmptyMap
    /\ formatted_context_text' = FixedText(NO_CONTEXT_TEXT)
    /\ IF vector_index = <<>> \/ query = "" \/ Strip(query) = ""
       THEN /\ rag_pc' = "done"                         \* lines 540-542
            /\ search_queries' = <<>>
       ELSE /\ rag_pc' = "search"
            /\ search_queries' = generate_sub_queries(query, resp)
    /\ UNCHANGED <<cfgVars, otherThanRag>>

\* lines 554-559: the search of the next sub-query succeeds.
RagSearchOk(dist) ==
    /\ rag_pc = "search"
    /\ q_idx < Len(search_queries)
    /\ q_idx' = q_idx + 1
    /\ all_retrieved_docs_with_scores' =
           all_retrieved_docs_with_scores \o similarity_search_with_score(dist, k_per_query)
    /\ UNCHANGED <<rag_pc, rag_query, rag_user, rag_filter, search_queries, q_failed,
                   final_context_docs_with_scores, context_docs,
                   formatted_context_text, context_docs_map>>
    /\ UNCHANGED <<cfgVars, otherThanRag>>

\* A failed search that ends the call with the empty result.
RagSearchFail_Abort ==
    /\ rag_pc = "search"
    /\ q_idx < Len(search_queries)
    /\ q_failed' = q_failed \cup {q_idx + 1}
    /\ rag_pc' = "done"
    /\ UNCHANGED <<q_idx, rag_query, rag_user, rag_filter, search_queries,
                   all_retrieved_docs_with_scores, final_context_docs_with_scores,
                   context_docs, formatted_context_text, context_docs_map>>
    /\ UNCHANGED <<cfgVars, otherThanRag>>

\* lines 560-561: the search of the next sub-query raises; logged, skipped.
RagSearchFail ==
    /\ rag_pc = "search"
    /\ q_idx < Len(search_queries)
    /\ q_idx' = q_idx + 1
    /\ q_failed' = q_failed \cup {q_idx + 1}
    /\ UNCHANGED <<rag_pc, rag_query, rag_user, rag_filter, search_queries,
                   all_retrieved_docs_with_scores, final_context_docs_with_scores,
                   context_docs, formatted_context_text, context_docs_map>>
    /\ UNCHANGED <<cfgVars, otherThanRag>>

\* lines 563-627: after the loop: filter, deduplicate, rank, cut, assemble.
RagFinish ==
    /\ rag_pc = "search"
    /\ q_idx = Len(search_queries)
    /\ LET res == RagResult(all_retrieved_docs_with_scores, rag_user,
                            EffectiveFilter(rag_filter), RAG_CHUNK_K)
       IN /\ final_context_docs_with_scores' = res.scored
          /\ context_docs' = res.docs
          /\ formatted_context_text' = res.text
          /\ context_docs_map' = res.map
    /\ rag_pc' = "done"
    /\ UNCHANGED <<rag_query, rag_user, rag_filter, search_queries, q_idx, q_failed,
                   all_retrieved_docs_with_scores>>
    /\ UNCHANGED <<cfgVars, otherThanRag>>

DocumentFilters == {None, GENERAL_QUERY_PLACEHOLDER} \cup Sources

InitRag ==
    /\ rag_pc = "idle"
    /\ rag_query = None
    /\ rag_user = None
    /\ rag_filter = None
    /\ search_queries = <<>>
    /\ q_idx = 0
    /\ q_failed = {}
    /\ all_retrieved_docs_with_scores = <<>>
    /\ final_context_docs_with_scores = <<>>
    /\ context_docs = <<>>
    /\ formatted_context_text = FixedText(NO_CONTEXT_TEXT)
    /\ context_docs_map = EmptyMap

\* The configuration read at start-up and the index loaded or built since.
InitConfig ==
    /\ RAG_CHUNK_K \in 1..MaxK
    /\ MULTI_QUERY_COUNT \in 0..MaxMultiQuery
    /\ llm_ready \in BOOLEAN
    /\ SUB_QUERY_PROMPT_TEMPLATE = WellFormedTemplate
    /\ vector_index \in IndexChoices

NextRag ==
    \/ \E q \in Queries, u \in Users, f \in DocumentFilters, resp \in SubQueryResponses :
           RagCall(q, u, f, resp)
    \/ \E dist \in [1..Len(vector_index) -> 1..MaxScore] : RagSearchOk(dist)
    \/ RagSearchFail
    \/ RagFinish

(***************************************************************************)
(* Backend selector: get_next_ollama_base_url, ai_core.py:80-105.          *)
(* One call is: the emptiness test (87), then the first iteration of the   *)
(* for loop: read the cursor, write cursor+1 mod N (95), read the pool at  *)
(* the cursor (96), return (102).  The loop body returns in its first      *)
(* iteration, so there is no second iteration.                             *)
(* The steps are separate actions: the function takes no lock and the      *)
(* server runs request threads in parallel.                                *)
(***************************************************************************)
num_urls == Len(OLLAMA_BASE_URLS)

\* A cursor update that clamps at the end of the pool instead of wrapping.
NextIndex_Clamp(loaded) ==
    IF loaded + 1 >= num_urls THEN num_urls - 1 ELSE loaded + 1

\* The value stored into the cursor on line 95, from the value read.
NextIndex(loaded) == PyMod(loaded + 1, num_urls)

\* line 87-89: empty pool, return None; the cursor is not touched.
SelEmpty(t) ==
    /\ t \in sel_threads
    /\ sel_pc[t] = "idle"
    /\ sel_calls[t] < MaxCalls
    /\ num_urls = 0
    /\ sel_calls' = [sel_calls EXCEPT ![t] = @ + 1]
    /\ sel_log' = Append(sel_log, [thread |-> t, own |-> None, pos |-> None, url |-> None])
    /\ UNCHANGED <<OLLAMA_BASE_URLS, last_used_ollama_url_index, sel_threads,
                   sel_pc, sel_loaded, sel_own>>
    /\ UNCHANGED otherThanSel

\* line 95, right-hand side: read the global cursor.
SelLoad(t) ==
    /\ t \in sel_threads
    /\ sel_pc[t] = "idle"
    /\ sel_calls[t] < MaxCalls
    /\ num_urls > 0
    /\ sel_loaded' = [sel_loaded EXCEPT ![t] = last_used_ollama_url_index]
    /\ sel_pc' = [sel_pc EXCEPT ![t] = "loaded"]
    /\ UNCHANGED <<OLLAMA_BASE_URLS, last_used_ollama_url_index, sel_threads,
                   sel_own, sel_calls, sel_log>>
    /\ UNCHANGED otherThanSel

\* line 95, assignment: store (read value + 1) % num_urls into the cursor.
SelStore(t) ==
    /\ t \in sel_threads
    /\ sel_pc[t] = "loaded"
    /\ last_used_ollama_url_index' = NextIndex(sel_loaded[t])
    /\ sel_own' = [sel_own EXCEPT ![t] = NextIndex(sel_loaded[t])]
    /\ sel_pc' = [sel_pc EXCEPT ![t] = "stored"]
    /\ UNCHANGED <<OLLAMA_BASE_URLS, sel_threads, sel_loaded, sel_calls, sel_log>>
    /\ UNCHANGED otherThanSel

\* lines 96-102: read the pool at the (global) cursor and return that URL.
SelReturn(t) ==
    /\ t \in sel_threads
    /\ sel_pc[t] = "stored"
    /\ sel_log' = Append(sel_log,
                         [thread |-> t, own |-> sel_own[t],
                          pos |-> last_used_ollama_url_index,
                          url |-> OLLAMA_BASE_URLS[last_used_ollama_url_index + 1]])
    /\ sel_calls' = [sel_calls EXCEPT ![t] = @ + 1]
    /\ sel_pc' = [sel_pc EXCEPT ![t] = "idle"]
    /\ UNCHANGED <<OLLAMA_BASE_URLS, last_used_ollama_url_index, sel_threads,
                   sel_loaded, sel_own>>
    /\ UNCHANGED otherThanSel

\* The selector's state when the module is imported (ai_core.py:76) with a
\* pool of config.py:25; `ts` are the threads that will call it.
InitSelector(ts) ==
    /\ OLLAMA_BASE_URLS \in SeqsUpTo(Endpoints, MaxPool)
    /\ last_used_ollama_url_index = -1
    /\ sel_threads = ts
    /\ sel_pc = [t \in Threads |-> "idle"]
    /\ sel_loaded = [t \in Threads |-> -1]
    /\ sel_own = [t \in Threads |-> -1]
    /\ sel_calls = [t \in Threads |-> 0]
    /\ sel_log = <<>>

\* The selector at rest, with a pool of two endpoints, for the
\* specifications that do not exercise it.
InitSelectorAtRest ==
    /\ OLLAMA_BASE_URLS = <<"http://h1:11434", "http://h2:11434">>
    /\ last_used_ollama_url_index = -1
    /\ sel_threads = {}
    /\ sel_pc = [t \in Threads |-> "idle"]
    /\ sel_loaded = [t \in Threads |-> -1]
    /\ sel_own = [t \in Threads |-> -1]
    /\ sel_calls = [t \in Threads |-> 0]
    /\ sel_log = <<>>

\* Retrieval at rest with an empty index and the default-like configuration,
\* for the specifications of the selector alone.
InitRagAtRest ==
    /\ RAG_CHUNK_K = 1
    /\ MULTI_QUERY_COUNT = 0
    /\ llm_ready = TRUE
    /\ SUB_QUERY_PROMPT_TEMPLATE = WellFormedTemplate
    /\ vector_index = <<>>
    /\ InitRag

NextSelector ==
    \E t \in Threads :
        \/ SelEmpty(t)
        \/ SelLoad(t)
        \/ SelStore(t)
        \/ SelReturn(t)

(***************************************************************************)
(* The message store, database.py.                                         *)
(***************************************************************************)
\* The user who chats and the thread ids they may pass; the other users
\* only own documents of the index.
ChatUsers == {"u1"}
ChatThreadIds == {"th1"}

\* Python's [] for the references of a message or of a result.
NoReferences == <<>>

\* save_message, database.py:381-419: one document appended to the collection.
save_message(messages, user_id, thread_id, sender, message_text, references,
             cot_reasoning) ==
    Append(messages,
           [user_id |-> user_id, thread_id |-> thread_id, sender |-> sender,
            message_text |-> message_text, references |-> references,
            cot_reasoning |-> cot_reasoning])

\* get_messages_by_thread, database.py:421-461: the messages of the user's
\* thread, oldest first.
get_messages_by_thread(messages, user_id, thread_id) ==
    SelectSeq(messages, LAMBDA msg : msg.user_id = user_id /\ msg.thread_id = thread_id)

\* get_thread_summary, database.py:325-341.  A summary is given as the
\* texts it condenses, oldest first; the empty summary "" condenses none.
get_thread_summary(summaries, user_id, thread_id) == summaries[<<user_id, thread_id>>]

\* A store that drops the summary it is given.
save_thread_summary_Skip(summaries, user_id, thread_id, summary) == summaries

\* save_thread_summary, database.py:343-358.
save_thread_summary(summaries, user_id, thread_id, summary) ==
    [summaries EXCEPT ![<<user_id, thread_id>>] = summary]

(***************************************************************************)
(* The conversation memory built for one request (ai_core.py:683-698) and  *)
(* committed with memory.asave_context (lines 713, 727, 835).              *)
(***************************************************************************)
HumanMessage(text) == [role |-> "human", text |-> text, covers |-> <<>>]
AIMessage(text) == [role |-> "ai", text |-> text, covers |-> <<>>]
\* line 690: the stored summary, put in front as an AI message.
SummaryMessage(summary) ==
    [role |-> "ai", text |-> "Current conversation summary: ", covers |-> summary]

\* lines 683-690: langchain_messages.
langchain_messages(raw_message_history, thread_summary) ==
    LET turns == SelectSeq(raw_message_history, LAMBDA msg : msg.sender \in {"user", "bot"})
        converted == [i \in 1..Len(turns) |->
                         IF turns[i].sender = "user"
                         THEN HumanMessage(turns[i].message_text)
                         ELSE AIMessage(turns[i].message_text)]
    IN IF thread_summary # <<>>
       THEN <<SummaryMessage(thread_summary)>> \o converted
       ELSE converted

\* The token count of a buffer of messages: every message weighs one unit.
get_num_tokens_from_messages(buffer) == Len(buffer)

\* The texts a message stands for when it is condensed into a summary.
Condensed(msg) == IF msg.covers # <<>> THEN msg.covers ELSE <<msg.text>>

\* The summarisation model call: the new summary condenses the existing
\* summary and the evicted messages.
RECURSIVE predict_new_summary(_, _)
predict_new_summary(pruned_memory, existing_summary) ==
    IF pruned_memory = <<>> THEN existing_summary
    ELSE predict_new_summary(Front(pruned_memory), existing_summary)
             \o Condensed(pruned_memory[Len(pruned_memory)])

\* A commit that appends the turn and never prunes.
asave_context_NoPrune(messages, summary, input, answer, ok) ==
    [raised |-> FALSE,
     messages |-> messages \o <<HumanMessage(input), AIMessage(answer)>>,
     summary |-> summary]

\* memory.asave_context: append the turn, then prune.  Pruning evicts the
\* oldest messages while the buffer is over the limit and calls the model
\* to summarise them; `ok` is whether that model call returns.
asave_context(messages, summary, input, answer, ok) ==
    LET buffer == messages \o <<HumanMessage(input), AIMessage(answer)>>
        over == Max(get_num_tokens_from_messages(buffer) - SUMMARY_BUFFER_TOKEN_LIMIT, 0)
        pruned_memory == Take(buffer, over)
        kept == SubSeq(buffer, over + 1, Len(buffer))
    IN IF over = 0
       THEN [raised |-> FALSE, messages |-> buffer, summary |-> summary]
       ELSE IF ~ok
       THEN [raised |-> TRUE, messages |-> kept, summary |-> summary]
       ELSE [raised |-> FALSE, messages |-> kept,
             summary |-> predict_new_summary(pruned_memory, summary)]

(***************************************************************************)
(* Model outputs and their parsing.                                        *)
(***************************************************************************)
\* Questions of the chat endpoint (app.py:551-556 rejects blank ones).
ChatQueries == {"What is X?", "Walk me through X"}

\* More questions, for the reasoning-required test of lines 673-675.
ReasoningQuestions ==
    {"What is X?", "Walk me through X", "Explain step by step how X works",
     "Explain STEP-BY-STEP how X works", "How does this work?",
     "Give a detailed explanation of X", "Explain your reasoning about X",
     "How does X work"}

\* A question as the sequence of its words and the characters between them.
QueryTokens(query) ==
    CASE query = "What is X?" -> <<"What", " ", "is", " ", "X", "?">>
      [] query = "Walk me through X" -> <<"Walk", " ", "me", " ", "through", " ", "X">>
      [] query = "Explain step by step how X works" ->
             <<"Explain", " ", "step", " ", "by", " ", "step", " ", "how", " ", "X", " ",
               "works">>
      [] query = "Explain STEP-BY-STEP how X works" ->
             <<"Explain", " ", "STEP", "-", "BY", "-", "STEP", " ", "how", " ", "X", " ",
               "works">>
      [] query = "How does this work?" ->
             <<"How", " ", "does", " ", "this", " ", "work", "?">>
      [] query = "Give a detailed explanation of X" ->
             <<"Give", " ", "a", " ", "detailed", " ", "explanation", " ", "of", " ", "X">>
      [] query = "Explain your reasoning about X" ->
             <<"Explain", " ", "your", " ", "reasoning", " ", "about", " ", "X">>
      [] query = "How does X work" -> <<"How", " ", "does", " ", "X", " ", "work">>
      [] OTHER -> <<query>>

\* Python's str.lower() on the words of the model.
LowerWord(word) ==
    CASE word = "What" -> "what"
      [] word = "Walk" -> "walk"
      [] word = "Explain" -> "explain"
      [] word = "How" -> "how"
      [] word = "Give" -> "give"
      [] word = "STEP" -> "step"
      [] word = "BY" -> "by"
      [] word = "X" -> "x"
      [] OTHER -> word

\* query.lower()
Lower(tokens) == [i \in 1..Len(tokens) |-> LowerWord(tokens[i])]

\* Python's `keyword in text`.
Contains(text, keyword) ==
    \E at \in 0..(Len(text) - Len(keyword)) :
        \A j \in 1..Len(keyword) : text[at + j] = keyword[j]

\* line 674: the reasoning phrases.
CotKeywords ==
    {<<"step", "-", "by", "-", "step">>,
     <<"explain", " ", "your", " ", "reasoning">>,
     <<"detailed", " ", "explanation">>,
     <<"walk", " ", "me", " ", "through">>,
     <<"how", " ", "does", " ", "this", " ", "work">>}

\* lines 673-675: the lower-cased question holds one of the reasoning phrases.
RequiresCot(query) ==
    \E keyword \in CotKeywords : Contains(Lower(QueryTokens(query)), keyword)

\* No model output yet.
NoResponse == [raised |-> FALSE, thinking |-> <<>>, text |-> None]

\* Outcomes of a call of the answering model: it raises (unreachable,
\* timed out, failed), or it returns text, given as its reasoning blocks and
\* the rest.
GeneralResponses ==
    {[raised |-> TRUE, thinking |-> <<>>, text |-> ""],
     [raised |-> FALSE, thinking |-> <<>>, text |-> " x is a thing "]}

SynthesisResponses ==
    {[raised |-> TRUE, thinking |-> <<>>, text |-> ""],
     [raised |-> FALSE, thinking |-> <<>>, text |-> "x is y [1]"],
     [raised |-> FALSE, thinking |-> <<"plan">>, text |-> " "],
     [raised |-> FALSE, thinking |-> <<>>, text |-> ""]}

\* Outputs of the answering model that cite passages: the first passage,
\* the second only, both with a repeated marker, or none.
CitationResponses ==
    {[raised |-> TRUE, thinking |-> <<>>, text |-> ""],
     [raised |-> FALSE, thinking |-> <<>>, text |-> "x is y [1]"],
     [raised |-> FALSE, thinking |-> <<>>, text |-> "x is y [2]"],
     [raised |-> FALSE, thinking |-> <<>>, text |-> "x [1] is y [2] as in [1]"],
     [raised |-> FALSE, thinking |-> <<>>, text |-> " x is a thing "]}

\* Python's str.strip() on the texts a model returns.
StripText(str) ==
    CASE str = " " -> ""
      [] str = " x is a thing " -> "x is a thing"
      [] OTHER -> str

\* utils.parse_llm_response: the reasoning blocks are taken out, the rest,
\* trimmed, is the answer.
parse_llm_response(llm_output) ==
    [answer |-> StripText(llm_output.text),
     thinking |-> llm_output.thinking]

\* line 828: "\n".join(thinking_content_list), or None.
RECURSIVE JoinLines(_)
JoinLines(lines) ==
    IF lines = <<>> THEN None
    ELSE IF Len(lines) = 1 THEN lines[1]
    ELSE JoinLines(Front(lines)) \o "\n" \o lines[Len(lines)]

\* The citation markers [n] of an answer text, in order of appearance.
CitationMarkers(text) ==
    CASE text = "x is y [1]" -> <<1>>
      [] text = "x is y [2]" -> <<2>>
      [] text = "x [1] is y [2] as in [1]" -> <<1, 2, 1>>
      [] OTHER -> <<>>

\* utils.extract_references: one reference per distinct cited number that
\* is a key of the context map.
extract_references(answer, docs_map) ==
    LET cited == DedupKeepFirst(CitationMarkers(answer))
        known == SelectSeq(cited, LAMBDA n : n \in DOMAIN docs_map)
    IN [i \in 1..Len(known) |->
           [citation_index |-> known[i], source |-> docs_map[known[i]].source,
            chunk_index |-> docs_map[known[i]].chunk_index]]

\* Fixed texts of the orchestrator.
LLM_NOT_INITIALIZED_TEXT == "AI model is not initialized. Cannot process chat query."
GENERAL_LLM_NOT_AVAILABLE_TEXT == "Error: AI model is not available for general response."
GENERAL_NO_URL_TEXT == "No active Ollama base URLs available for general response."
GENERAL_ERROR_TEXT ==
    "Sorry, I encountered an error while generating a general response (Exception)."
PROMPT_ERROR_TEXT ==
    "Error: Could not prepare the request for the AI model (Exception)."
SYNTHESIS_NO_URL_TEXT == "No active Ollama base URLs available for LLM invocation."
SYNTHESIS_ERROR_TEXT ==
    "Sorry, I encountered an error while processing your request (Exception). The AI model might be unavailable, timed out, or failed internally."
EMPTY_ANSWER_TEXT == "[AI response was empty. See reasoning process.]"
PROCESSING_ERROR_TEXT == "[AI Response Processing Error: Empty result after parsing]"

\* line 725
DocNotEnoughAnswer(document_filter) ==
    DocNotEnoughText(document_filter)
        \o " Try asking a more general question or rephrasing."

\* The texts with which the orchestrator reports a backend failure.
ErrorTexts ==
    {GENERAL_LLM_NOT_AVAILABLE_TEXT, GENERAL_NO_URL_TEXT, GENERAL_ERROR_TEXT,
     SYNTHESIS_NO_URL_TEXT, SYNTHESIS_ERROR_TEXT, PROCESSING_ERROR_TEXT,
     PROMPT_ERROR_TEXT}

\* The context of a prompt that carries no retrieved context.
NoContext == JoinedBlocks(<<>>)

NoPrompt ==
    [kind |-> "none", query |-> None, chat_history |-> <<>>, context |-> NoContext,
     cot |-> FALSE]

\* lines 1275-1289: the prompt of a general answer: history and question.
GeneralPrompt(query, chat_history) ==
    [kind |-> "general", query |-> query, chat_history |-> chat_history,
     context |-> NoContext, cot |-> FALSE]

\* lines 739-793: the synthesis prompt: history, context, question, and the
\* instruction variant.
SynthesisPrompt(query, chat_history, context, cot) ==
    [kind |-> "synthesis", query |-> query, chat_history |-> chat_history,
     context |-> context, cot |-> cot]

\* How a call ends.
NoResult == [kind |-> "none", answer |-> None, references |-> NoReferences, thinking |-> None]
ResultReturned(answer, references, thinking) ==
    [kind |-> "returned", answer |-> answer, references |-> references,
     thinking |-> thinking]
ResultRaised == [kind |-> "raised", answer |-> None, references |-> NoReferences, thinking |-> None]

(***************************************************************************)
(* process_chat_query_with_rag_and_history, ai_core.py:651-854.  The call  *)
(* is cut at its awaits of the model: start, retrieval, the answering      *)
(* model call, the commit of the memory.                                   *)
(***************************************************************************)
\* line 704
is_general_query_mode(document_filter) ==
    document_filter = GENERAL_QUERY_PLACEHOLDER \/ document_filter = None

\* get_next_ollama_base_url called by a request, as one step: the cursor
\* it leaves and the URL it returns.
NextUrl ==
    IF num_urls = 0
    THEN [index |-> last_used_ollama_url_index, url |-> None]
    ELSE [index |-> NextIndex(last_used_ollama_url_index),
          url |-> OLLAMA_BASE_URLS[NextIndex(last_used_ollama_url_index) + 1]]

\* A general answer that invokes the model a second time when the first
\* invocation raised.
get_general_response_from_ollama_Retry(url, resp) ==
    IF ~llm_ready
    THEN [text |-> GENERAL_LLM_NOT_AVAILABLE_TEXT, called |-> 0, failure |-> "no_model",
          selected |-> FALSE]
    ELSE IF url = None
    THEN [text |-> GENERAL_NO_URL_TEXT, called |-> 0, failure |-> "no_endpoint",
          selected |-> TRUE]
    ELSE IF resp.raised
    THEN [text |-> GENERAL_ERROR_TEXT, called |-> 2, failure |-> "model_raised",
          selected |-> TRUE]
    ELSE [text |-> StripText(parse_llm_response(resp).answer), called |-> 1,
          failure |-> "none", selected |-> TRUE]

\* get_general_response_from_ollama, lines 1265-1318: the text it returns,
\* whether it invoked the model, and the backend failure it met.
get_general_response_from_ollama(url, resp) ==
    IF ~llm_ready
    THEN [text |-> GENERAL_LLM_NOT_AVAILABLE_TEXT, called |-> 0, failure |-> "no_model",
          selected |-> FALSE]
    ELSE IF url = None
    THEN [text |-> GENERAL_NO_URL_TEXT, called |-> 0, failure |-> "no_endpoint",
          selected |-> TRUE]
    ELSE IF resp.raised
    THEN [text |-> GENERAL_ERROR_TEXT, called |-> 1, failure |-> "model_raised",
          selected |-> TRUE]
    ELSE [text |-> StripText(parse_llm_response(resp).answer), called |-> 1,
          failure |-> "none", selected |-> TRUE]

\* The locals of a call before its first line.
FrameAtEntry ==
    /\ requires_cot' = FALSE
    /\ memory_messages' = <<>>
    /\ moving_summary_buffer' = <<>>
    /\ chat_history_for_prompt' = <<>>
    /\ context_text' = FixedText("No relevant context was found.")
    /\ req_context_docs_map' = EmptyMap
    /\ final_prompt' = NoPrompt
    /\ response_message' = None
    /\ thinking_content_str' = None
    /\ full_llm_response' = NoResponse
    /\ req_failure' = "none"
    /\ n_model_calls' = 0
    /\ n_selector_calls' = 0
    /\ req_retrieved' = FALSE
    /\ req_had_candidate' = FALSE

\* lines 667-670: the model was never initialised; nothing is saved.
ChatNotReady(user_id, thread_id, query, document_filter) ==
    /\ req_pc \in {"idle", "done"}
    /\ n_requests < MaxRequests
    /\ ~llm_ready
    /\ n_requests' = n_requests + 1
    /\ req_user_id' = user_id
    /\ req_thread_id' = thread_id
    /\ req_query' = query
    /\ req_document_filter' = document_filter
    /\ FrameAtEntry
    /\ req_result' = ResultReturned(LLM_NOT_INITIALIZED_TEXT, NoReferences,
                                    "AI components not ready.")
    /\ req_pc' = "done"
    /\ UNCHANGED <<storeVars, SUMMARY_BUFFER_TOKEN_LIMIT>>
    /\ UNCHANGED <<selVars, cfgVars, ragVars, sideVars>>

\* lines 672-704: save the question, load the thread and its summary, build
\* the memory, select the mode.
ChatStart(user_id, thread_id, query, document_filter) ==
    /\ req_pc \in {"idle", "done"}
    /\ n_requests < MaxRequests
    /\ llm_ready
    /\ n_requests' = n_requests + 1
    /\ req_user_id' = user_id
    /\ req_thread_id' = thread_id
    /\ req_query' = query
    /\ req_document_filter' = document_filter
    /\ db_messages' = save_message(db_messages, user_id, thread_id, "user", query,
                                   NoReferences, None)
    /\ requires_cot' = RequiresCot(query)
    /\ LET raw_message_history == get_messages_by_thread(db_messages', user_id, thread_id)
           thread_summary == get_thread_summary(db_summaries, user_id, thread_id)
       IN /\ memory_messages' = langchain_messages(raw_message_history, thread_summary)
          /\ chat_history_for_prompt' =
                 langchain_messages(raw_message_history, thread_summary)
    /\ moving_summary_buffer' = <<>>
    /\ context_text' = FixedText("No relevant context was found.")
    /\ req_context_docs_map' = EmptyMap
    /\ final_prompt' = NoPrompt
    /\ response_message' = None
    /\ thinking_content_str' = None
    /\ full_llm_response' = NoResponse
    /\ req_result' = NoResult
    /\ req_failure' = "none"
    /\ n_model_calls' = 0
    /\ n_selector_calls' = 0
    /\ req_retrieved' = FALSE
    /\ req_had_candidate' = FALSE
    /\ req_pc' = IF is_general_query_mode(document_filter) THEN "general" ELSE "retrieve"
    /\ UNCHANGED <<db_summaries, SUMMARY_BUFFER_TOKEN_LIMIT>>
    /\ UNCHANGED <<selVars, cfgVars, ragVars, sideVars>>

\* lines 706-712: general mode: the answer of get_general_response_from_ollama
\* is saved as the assistant turn.
ChatGeneral(resp) ==
    /\ req_pc = "general"
    /\ LET general == get_general_response_from_ollama(NextUrl.url, resp)
       IN /\ response_message' = general.text
          /\ n_model_calls' = n_model_calls + general.called
          /\ n_selector_calls' = n_selector_calls + (IF general.selected THEN 1 ELSE 0)
          /\ req_failure' = general.failure
          /\ last_used_ollama_url_index' =
                 IF general.selected THEN NextUrl.index ELSE last_used_ollama_url_index
          /\ db_messages' = save_message(db_messages, req_user_id, req_thread_id, "bot",
                                         general.text, NoReferences, None)
    /\ final_prompt' = GeneralPrompt(req_query, chat_history_for_prompt)
    /\ req_pc' = "commit"
    /\ UNCHANGED <<db_summaries, SUMMARY_BUFFER_TOKEN_LIMIT, n_requests, req_user_id,
                   req_thread_id, req_query, req_document_filter, requires_cot,
                   memory_messages, moving_summary_buffer, chat_history_for_prompt,
                   context_text, req_context_docs_map, thinking_content_str, full_llm_response,
                   req_result, req_retrieved,
                   req_had_candidate>>
    /\ UNCHANGED <<OLLAMA_BASE_URLS, sel_threads, sel_pc, sel_loaded, sel_own,
                   sel_calls, sel_log>>
    /\ UNCHANGED <<cfgVars, ragVars, sideVars>>

\* line 721: document mode calls perform_rag_search with the request's
\* question, user and document filter.
ChatRetrieve(resp) ==
    /\ req_pc = "retrieve"
    /\ RagCall(req_query, req_user_id, req_document_filter, resp)

\* lines 721-731: perform_rag_search has returned.  With an empty context
\* map the fixed answer is saved as the assistant turn; otherwise the call
\* goes on to the synthesis.
ChatRetrieved ==
    /\ req_pc = "retrieve"
    /\ rag_pc = "done"
    /\ context_text' = formatted_context_text
    /\ req_context_docs_map' = context_docs_map
    /\ req_retrieved' = TRUE
    /\ req_had_candidate' =
           \E i \in 1..Len(all_retrieved_docs_with_scores) :
               /\ all_retrieved_docs_with_scores[i].doc.user_id = req_user_id
               /\ all_retrieved_docs_with_scores[i].doc.source = req_document_filter
    /\ IF context_docs_map = EmptyMap
       THEN /\ response_message' = DocNotEnoughAnswer(req_document_filter)
            /\ db_messages' = save_message(db_messages, req_user_id, req_thread_id, "bot",
                                           DocNotEnoughAnswer(req_document_filter),
                                           NoReferences, None)
            /\ req_pc' = "commit"
       ELSE /\ UNCHANGED <<response_message, db_messages>>
            /\ req_pc' = "synthesize"
    \* the frame of perform_rag_search is gone
    /\ rag_pc' = "idle"
    /\ rag_query' = None
    /\ rag_user' = None
    /\ rag_filter' = None
    /\ search_queries' = <<>>
    /\ q_idx' = 0
    /\ q_failed' = {}
    /\ all_retrieved_docs_with_scores' = <<>>
    /\ final_context_docs_with_scores' = <<>>
    /\ context_docs' = <<>>
    /\ formatted_context_text' = FixedText(NO_CONTEXT_TEXT)
    /\ context_docs_map' = EmptyMap
    /\ UNCHANGED <<db_summaries, SUMMARY_BUFFER_TOKEN_LIMIT, n_requests, req_user_id,
                   req_thread_id, req_query, req_document_filter, requires_cot,
                   memory_messages, moving_summary_buffer, chat_history_for_prompt,
                   final_prompt, thinking_content_str, full_llm_response, req_result, req_failure,
                   n_model_calls, n_selector_calls>>
    /\ UNCHANGED <<selVars, cfgVars, sideVars>>

\* lines 713-716 and 727-731: commit the turn to the memory, store the
\* summary of the memory, return.  The await of asave_context is in no try
\* block: when its model call raises, the exception leaves the call.
ChatCommit(ok) ==
    /\ req_pc = "commit"
    /\ LET saved == asave_context(memory_messages, moving_summary_buffer, req_query,
                                  response_message, ok)
       IN /\ memory_messages' = saved.messages
          /\ moving_summary_buffer' = saved.summary
          /\ IF saved.raised
             THEN /\ req_result' = ResultRaised
                  /\ UNCHANGED db_summaries
             ELSE /\ db_summaries' = save_thread_summary(db_summaries, req_user_id,
                                                         req_thread_id, saved.summary)
                  /\ req_result' =
                         ResultReturned(response_message, NoReferences,
                                        IF is_general_query_mode(req_document_filter)
                                        THEN "General query mode, no RAG performed."
                                        ELSE "No RAG context found in "
                                                 \o req_document_filter \o ".")
    /\ req_pc' = "done"
    /\ UNCHANGED <<db_messages, SUMMARY_BUFFER_TOKEN_LIMIT, n_requests, req_user_id,
                   req_thread_id, req_query, req_document_filter, requires_cot,
                   chat_history_for_prompt, context_text, req_context_docs_map,
                   final_prompt, response_message, thinking_content_str, full_llm_response, req_failure,
                   n_model_calls, n_selector_calls, req_retrieved,
                   req_had_candidate>>
    /\ UNCHANGED <<selVars, cfgVars, ragVars, sideVars>>

\* A substitution that leaves the parsed answer as it is.
AnswerOrPlaceholder_Keep(bot_answer, thinking) == bot_answer

\* lines 830-831: the placeholders for an empty parsed answer.
AnswerOrPlaceholder(bot_answer, thinking) ==
    IF bot_answer = "" /\ Truthy(thinking) THEN EMPTY_ANSWER_TEXT
    ELSE IF bot_answer = "" THEN PROCESSING_ERROR_TEXT
    ELSE bot_answer

\* lines 735-831: build the synthesis prompt, take an endpoint, invoke the
\* model, parse its output.  Without an endpoint (812-816), or when the
\* model call raises (847-854), the error text is saved as the assistant
\* turn and returned with no references.
ChatSynthesize(resp) ==
    /\ req_pc = "synthesize"
    /\ final_prompt' = SynthesisPrompt(req_query, chat_history_for_prompt, context_text,
                                       requires_cot)
    /\ last_used_ollama_url_index' = NextUrl.index
    /\ n_selector_calls' = n_selector_calls + 1
    /\ IF NextUrl.url = None
       THEN /\ db_messages' = save_message(db_messages, req_user_id, req_thread_id, "bot",
                                           SYNTHESIS_NO_URL_TEXT, NoReferences, None)
            /\ req_result' = ResultReturned(SYNTHESIS_NO_URL_TEXT, NoReferences,
                                            "No active Ollama URLs.")
            /\ req_failure' = "no_endpoint"
            /\ req_pc' = "done"
            /\ UNCHANGED <<response_message, thinking_content_str, full_llm_response, n_model_calls>>
       ELSE IF resp.raised
       THEN /\ db_messages' = save_message(db_messages, req_user_id, req_thread_id, "bot",
                                           SYNTHESIS_ERROR_TEXT, NoReferences,
                                           "Error in ai_core processing: Exception")
            /\ req_result' = ResultReturned(SYNTHESIS_ERROR_TEXT, NoReferences,
                                            "Error: Exception")
            /\ req_failure' = "model_raised"
            /\ n_model_calls' = n_model_calls + 1
            /\ req_pc' = "done"
            /\ UNCHANGED <<response_message, thinking_content_str, full_llm_response>>
       ELSE LET parsed == parse_llm_response(resp)
                thinking == JoinLines(parsed.thinking)
            IN /\ thinking_content_str' = thinking
               /\ full_llm_response' = resp
               /\ response_message' = AnswerOrPlaceholder(parsed.answer, thinking)
               /\ req_failure' = IF parsed.answer = "" /\ ~Truthy(thinking)
                                 THEN "unprocessable" ELSE "none"
               /\ n_model_calls' = n_model_calls + 1
               /\ req_pc' = "persist"
               /\ UNCHANGED <<db_messages, req_result>>
    /\ UNCHANGED <<db_summaries, SUMMARY_BUFFER_TOKEN_LIMIT, n_requests, req_user_id,
                   req_thread_id, req_query, req_document_filter, requires_cot,
                   memory_messages, moving_summary_buffer, chat_history_for_prompt,
                   context_text, req_context_docs_map, req_retrieved,
                   req_had_candidate>>
    /\ UNCHANGED <<OLLAMA_BASE_URLS, sel_threads, sel_pc, sel_loaded, sel_own,
                   sel_calls, sel_log>>
    /\ UNCHANGED <<cfgVars, ragVars, sideVars>>

\* A variant that returns every passage of the context as a reference,
\* cited or not.
ChatPersist_AllPassages(ok) ==
    /\ req_pc = "persist"
    /\ LET references == [n \in DOMAIN req_context_docs_map |->
                                [citation_index |-> n,
                                 source |-> req_context_docs_map[n].source,
                                 chunk_index |-> req_context_docs_map[n].chunk_index]]
           saved == asave_context(memory_messages, moving_summary_buffer, req_query,
                                  response_message, ok)
       IN /\ memory_messages' = saved.messages
          /\ moving_summary_buffer' = saved.summary
          /\ IF saved.raised
             THEN /\ db_messages' = save_message(db_messages, req_user_id, req_thread_id,
                                                 "bot", SYNTHESIS_ERROR_TEXT, NoReferences,
                                                 "Error in ai_core processing: Exception")
                  /\ req_result' = ResultReturned(SYNTHESIS_ERROR_TEXT, NoReferences,
                                                  "Error: Exception")
                  /\ req_failure' = "model_raised"
                  /\ UNCHANGED db_summaries
             ELSE /\ db_messages' = save_message(db_messages, req_user_id, req_thread_id,
                                                 "bot", response_message, references,
                                                 thinking_content_str)
                  /\ db_summaries' = save_thread_summary(db_summaries, req_user_id,
                                                         req_thread_id, saved.summary)
                  /\ req_result' = ResultReturned(StripText(response_message), references,
                                                  thinking_content_str)
                  /\ UNCHANGED req_failure
    /\ req_pc' = IF asave_context(memory_messages, moving_summary_buffer, req_query,
                                  response_message, ok).raised
                 THEN "done" ELSE "notify"
    /\ UNCHANGED <<SUMMARY_BUFFER_TOKEN_LIMIT, n_requests, req_user_id, req_thread_id,
                   req_query, req_document_filter, requires_cot, chat_history_for_prompt,
                   context_text, req_context_docs_map, final_prompt, response_message,
                   thinking_content_str, full_llm_response, n_model_calls,
                   n_selector_calls, req_retrieved,
                   req_had_candidate>>
    /\ UNCHANGED <<selVars, cfgVars, ragVars, sideVars>>

\* lines 833-846: resolve the citations, commit the turn to the memory,
\* save the answer and the summary, return.  When asave_context raises, the
\* except block of 847-854 saves and returns the error text.
ChatPersist(ok) ==
    /\ req_pc = "persist"
    /\ LET references == extract_references(response_message, req_context_docs_map)
           saved == asave_context(memory_messages, moving_summary_buffer, req_query,
                                  response_message, ok)
       IN /\ memory_messages' = saved.messages
          /\ moving_summary_buffer' = saved.summary
          /\ IF saved.raised
             THEN /\ db_messages' = save_message(db_messages, req_user_id, req_thread_id,
                                                 "bot", SYNTHESIS_ERROR_TEXT, NoReferences,
                                                 "Error in ai_core processing: Exception")
                  /\ req_result' = ResultReturned(SYNTHESIS_ERROR_TEXT, NoReferences,
                                                  "Error: Exception")
                  /\ req_failure' = "model_raised"
                  /\ UNCHANGED db_summaries
             ELSE /\ db_messages' = save_message(db_messages, req_user_id, req_thread_id,
                                                 "bot", response_message, references,
                                                 thinking_content_str)
                  /\ db_summaries' = save_thread_summary(db_summaries, req_user_id,
                                                         req_thread_id, saved.summary)
                  /\ req_result' = ResultReturned(StripText(response_message), references,
                                                  thinking_content_str)
                  /\ UNCHANGED req_failure
    /\ req_pc' = IF asave_context(memory_messages, moving_summary_buffer, req_query,
                                  response_message, ok).raised
                 THEN "done" ELSE "notify"
    /\ UNCHANGED <<SUMMARY_BUFFER_TOKEN_LIMIT, n_requests, req_user_id, req_thread_id,
                   req_query, req_document_filter, requires_cot, chat_history_for_prompt,
                   context_text, req_context_docs_map, final_prompt, response_message,
                   thinking_content_str, full_llm_response, n_model_calls,
                   n_selector_calls, req_retrieved,
                   req_had_candidate>>
    /\ UNCHANGED <<selVars, cfgVars, ragVars, sideVars>>

\* line 845: the progress callback is told "Done.", then line 846 returns.
\* The callback is the caller's; `cb_ok` is whether it returns (no callback
\* counts as returning).  When it raises, the except block of 847-854 saves
\* and returns the error text, after the answer and the summary were saved.
ChatNotify(cb_ok) ==
    /\ req_pc = "notify"
    /\ IF cb_ok
       THEN UNCHANGED <<db_messages, req_result, req_failure>>
       ELSE /\ db_messages' = save_message(db_messages, req_user_id, req_thread_id, "bot",
                                           SYNTHESIS_ERROR_TEXT, NoReferences,
                                           "Error in ai_core processing: Exception")
            /\ req_result' = ResultReturned(SYNTHESIS_ERROR_TEXT, NoReferences,
                                            "Error: Exception")
            /\ req_failure' = "callback_raised"
    /\ req_pc' = "done"
    /\ UNCHANGED <<db_summaries, SUMMARY_BUFFER_TOKEN_LIMIT, n_requests, req_user_id,
                   req_thread_id, req_query, req_document_filter, requires_cot,
                   memory_messages, moving_summary_buffer, chat_history_for_prompt,
                   context_text, req_context_docs_map, final_prompt, response_message,
                   thinking_content_str, full_llm_response, n_model_calls,
                   n_selector_calls, req_retrieved,
                   req_had_candidate>>
    /\ UNCHANGED <<selVars, cfgVars, ragVars, sideVars>>

\* lines 735-807: building the synthesis prompt raises (the callback of
\* line 736 is inside this try block): the error text is saved as the
\* assistant turn and returned; no endpoint is taken, no model is called.
ChatPromptError ==
    /\ req_pc = "synthesize"
    /\ db_messages' = save_message(db_messages, req_user_id, req_thread_id, "bot",
                                   PROMPT_ERROR_TEXT, NoReferences, None)
    /\ req_result' = ResultReturned(PROMPT_ERROR_TEXT, NoReferences,
                                    "Prompt creation failed.")
    /\ req_failure' = "prompt_error"
    /\ req_pc' = "done"
    /\ UNCHANGED <<db_summaries, SUMMARY_BUFFER_TOKEN_LIMIT, n_requests, req_user_id,
                   req_thread_id, req_query, req_document_filter, requires_cot,
                   memory_messages, moving_summary_buffer, chat_history_for_prompt,
                   context_text, req_context_docs_map, final_prompt, response_message,
                   thinking_content_str, full_llm_response, n_model_calls,
                   n_selector_calls, req_retrieved,
                   req_had_candidate>>
    /\ UNCHANGED <<selVars, cfgVars, ragVars, sideVars>>

\* The store and the request frame before any request.
InitChat ==
    /\ db_messages = <<>>
    /\ db_summaries = [key \in Users \X ChatThreadIds |-> <<>>]
    /\ n_requests = 0
    /\ req_pc = "idle"
    /\ req_user_id = None
    /\ req_thread_id = None
    /\ req_query = None
    /\ req_document_filter = None
    /\ requires_cot = FALSE
    /\ memory_messages = <<>>
    /\ moving_summary_buffer = <<>>
    /\ chat_history_for_prompt = <<>>
    /\ context_text = FixedText("No relevant context was found.")
    /\ req_context_docs_map = EmptyMap
    /\ final_prompt = NoPrompt
    /\ response_message = None
    /\ thinking_content_str = None
    /\ full_llm_response = NoResponse
    /\ req_result = NoResult
    /\ req_failure = "none"
    /\ n_model_calls = 0
    /\ n_selector_calls = 0
    /\ req_retrieved = FALSE
    /\ req_had_candidate = FALSE

\* generate_sub_queries not called on its own.
InitSubQueriesAtRest ==
    /\ sq_pc = "idle"
    /\ sq_query = None
    /\ sq_response = [raised |-> FALSE, lines |-> <<>>]
    /\ sq_result = <<>>

(***************************************************************************)
(* Two requests on the same conversation thread, each on its own request   *)
(* thread of the server (app.py:838 serves with 8 threads).  Each runs     *)
(* process_chat_query_with_rag_and_history; the steps are its operations   *)
(* on the store, in program order, with the memory of the request local   *)
(* to it.  Retrieval does not touch the store and is left out.             *)
(***************************************************************************)
\* Per request thread, before any request.
InitConc ==
    /\ conc_pc = [t \in Threads |-> "idle"]
    /\ conc_general = [t \in Threads |-> TRUE]
    /\ conc_query = [t \in Threads |-> None]
    /\ conc_raw_message_history = [t \in Threads |-> <<>>]
    /\ conc_thread_summary = [t \in Threads |-> <<>>]
    /\ conc_memory_messages = [t \in Threads |-> <<>>]
    /\ conc_moving_summary_buffer = [t \in Threads |-> <<>>]
    /\ conc_response_message = [t \in Threads |-> None]

\* line 672: the request saves the user's question.
ConcStart(t, query, general) ==
    /\ conc_pc[t] = "idle"
    /\ llm_ready
    /\ db_messages' = save_message(db_messages, "u1", "th1", "user", query,
                                   NoReferences, None)
    /\ conc_pc' = [conc_pc EXCEPT ![t] = "load_history"]
    /\ conc_general' = [conc_general EXCEPT ![t] = general]
    /\ conc_query' = [conc_query EXCEPT ![t] = query]
    /\ UNCHANGED <<db_summaries, conc_raw_message_history, conc_thread_summary,
                   conc_memory_messages, conc_moving_summary_buffer,
                   conc_response_message>>
    /\ UNCHANGED <<selVars, cfgVars, ragVars, reqVars, sqVars, cacheVars, uploadVars>>

\* lines 680-681: the request reads the messages of the thread.
ConcLoadHistory(t) ==
    /\ conc_pc[t] = "load_history"
    /\ conc_raw_message_history' =
           [conc_raw_message_history EXCEPT
                ![t] = get_messages_by_thread(db_messages, "u1", "th1")]
    /\ conc_pc' = [conc_pc EXCEPT ![t] = "load_summary"]
    /\ UNCHANGED <<storeVars, conc_general, conc_query, conc_thread_summary,
                   conc_memory_messages, conc_moving_summary_buffer,
                   conc_response_message>>
    /\ UNCHANGED <<selVars, cfgVars, ragVars, reqVars, sqVars, cacheVars, uploadVars>>

\* lines 683-698: the request reads the stored summary and builds its memory.
ConcLoadSummary(t) ==
    /\ conc_pc[t] = "load_summary"
    /\ LET thread_summary == get_thread_summary(db_summaries, "u1", "th1")
       IN /\ conc_thread_summary' = [conc_thread_summary EXCEPT ![t] = thread_summary]
          /\ conc_memory_messages' =
                 [conc_memory_messages EXCEPT
                      ![t] = langchain_messages(conc_raw_message_history[t],
                                                thread_summary)]
    /\ conc_moving_summary_buffer' = [conc_moving_summary_buffer EXCEPT ![t] = <<>>]
    /\ conc_pc' = [conc_pc EXCEPT ![t] = "answer"]
    /\ UNCHANGED <<storeVars, conc_general, conc_query, conc_raw_message_history,
                   conc_response_message>>
    /\ UNCHANGED <<selVars, cfgVars, ragVars, reqVars, sqVars, cacheVars, uploadVars>>

\* General mode, lines 710-712: the answer of the model (or the apology
\* for its failure) is saved as the assistant's turn.  Synthesis, lines
\* 818-831 and 847-854: the answer is held; when the model call raises,
\* the error text is saved and the request ends.
ConcAnswer(t, resp) ==
    /\ conc_pc[t] = "answer"
    /\ IF conc_general[t]
       THEN LET text == get_general_response_from_ollama("http://h1:11434", resp).text
            IN /\ conc_response_message' = [conc_response_message EXCEPT ![t] = text]
               /\ db_messages' = save_message(db_messages, "u1", "th1", "bot", text,
                                              NoReferences, None)
               /\ conc_pc' = [conc_pc EXCEPT ![t] = "commit"]
       ELSE IF resp.raised
       THEN /\ db_messages' = save_message(db_messages, "u1", "th1", "bot",
                                           SYNTHESIS_ERROR_TEXT, NoReferences,
                                           "Error in ai_core processing: Exception")
            /\ conc_pc' = [conc_pc EXCEPT ![t] = "done"]
            /\ UNCHANGED conc_response_message
       ELSE LET parsed == parse_llm_response(resp)
            IN /\ conc_response_message' =
                      [conc_response_message EXCEPT
                           ![t] = AnswerOrPlaceholder(parsed.answer,
                                                      JoinLines(parsed.thinking))]
               /\ conc_pc' = [conc_pc EXCEPT ![t] = "commit"]
               /\ UNCHANGED db_messages
    /\ UNCHANGED <<db_summaries, conc_general, conc_query, conc_raw_message_history,
                   conc_thread_summary, conc_memory_messages,
                   conc_moving_summary_buffer>>
    /\ UNCHANGED <<selVars, cfgVars, ragVars, reqVars, sqVars, cacheVars, uploadVars>>

\* lines 713-714 and 835-840: the turn is committed to the memory of the
\* request, which prunes and summarises; on the synthesis path the answer
\* is saved after it.  A raising commit ends the request: in general mode
\* the exception leaves the function, on the synthesis path lines 847-854
\* save the error text.
ConcCommit(t, ok) ==
    /\ conc_pc[t] = "commit"
    /\ LET saved == asave_context(conc_memory_messages[t], conc_moving_summary_buffer[t],
                                  conc_query[t], conc_response_message[t], ok)
       IN /\ conc_memory_messages' = [conc_memory_messages EXCEPT ![t] = saved.messages]
          /\ conc_moving_summary_buffer' =
                 [conc_moving_summary_buffer EXCEPT ![t] = saved.summary]
          /\ conc_pc' = [conc_pc EXCEPT ![t] = IF saved.raised THEN "done"
                                                ELSE "save_summary"]
          /\ db_messages' =
                 IF conc_general[t] THEN db_messages
                 ELSE IF saved.raised
                 THEN save_message(db_messages, "u1", "th1", "bot", SYNTHESIS_ERROR_TEXT,
                                   NoReferences, "Error in ai_core processing: Exception")
                 ELSE save_message(db_messages, "u1", "th1", "bot",
                                   conc_response_message[t], NoReferences, None)
    /\ UNCHANGED <<db_summaries, conc_general, conc_query, conc_raw_message_history,
                   conc_thread_summary, conc_response_message>>
    /\ UNCHANGED <<selVars, cfgVars, ragVars, reqVars, sqVars, cacheVars, uploadVars>>

\* lines 715 and 842: the summary of the request's memory replaces the
\* stored one (database.py:351-354).
ConcSaveSummary(t) ==
    /\ conc_pc[t] = "save_summary"
    /\ db_summaries' = save_thread_summary(db_summaries, "u1", "th1",
                                           conc_moving_summary_buffer[t])
    /\ conc_pc' = [conc_pc EXCEPT ![t] = "done"]
    /\ UNCHANGED <<db_messages, conc_general, conc_query, conc_raw_message_history,
                   conc_thread_summary, conc_memory_messages,
                   conc_moving_summary_buffer, conc_response_message>>
    /\ UNCHANGED <<selVars, cfgVars, ragVars, reqVars, sqVars, cacheVars, uploadVars>>

NextConc ==
    \/ \E t \in Threads, q \in ChatQueries, general \in BOOLEAN : ConcStart(t, q, general)
    \/ \E t \in Threads : ConcLoadHistory(t)
    \/ \E t \in Threads : ConcLoadSummary(t)
    \/ \E t \in Threads, resp \in GeneralResponses : ConcAnswer(t, resp)
    \/ \E t \in Threads, ok \in BOOLEAN : ConcCommit(t, ok)
    \/ \E t \in Threads : ConcSaveSummary(t)

(***************************************************************************)
(* The cache of document texts (ai_core.py:72, 323-364), a dict of dicts   *)
(* {user_id: {filename: text}}, used by request threads without a lock.    *)
(* A dict is a function on the keys it holds; a step is one statement.     *)
(***************************************************************************)
EmptyDict == [key \in {} |-> None]

\* dict[key] = value
Put(dict, key, value) ==
    [k \in DOMAIN dict \cup {key} |-> IF k = key THEN value ELSE dict[k]]

\* The text of the file a user uploaded under a name; no text is <<>>.
DocumentText(user_id, filename) == <<"text of", user_id, filename>>
NoText == <<>>

\* document_texts_cache.get(user_id, {}).get(filename), line 342.
CachedText(cache, user_id, filename) ==
    IF user_id \in DOMAIN cache /\ filename \in DOMAIN cache[user_id]
    THEN cache[user_id][filename]
    ELSE NoText

IdleCacheCall ==
    [pc |-> "idle", op |-> None, user_id |-> None, filename |-> None, text |-> NoText]

InitCache ==
    /\ document_texts_cache = EmptyDict
    /\ cache_call = [t \in Threads |-> IdleCacheCall]

\* A thread enters cache_document_text (called by upload_file, app.py:377,
\* with the text of the uploaded file) or
\* get_document_text_from_cache_or_load.
CacheStart(t, op, user_id, filename) ==
    /\ cache_call[t].pc = "idle"
    /\ cache_call' =
           [cache_call EXCEPT
                ![t] = [pc |-> IF op = "cache" THEN "check" ELSE "read", op |-> op,
                        user_id |-> user_id, filename |-> filename,
                        text |-> IF op = "cache" THEN DocumentText(user_id, filename)
                                 ELSE NoText]]
    /\ UNCHANGED document_texts_cache
    /\ UNCHANGED <<selVars, cfgVars, ragVars, chatVars, sqVars, concVars, uploadVars>>

\* lines 342-356: a hit returns the cached text; after a miss the text is
\* read from the user's file on disk.
CacheRead(t) ==
    /\ cache_call[t].pc = "read"
    /\ LET cached_text == CachedText(document_texts_cache, cache_call[t].user_id,
                                     cache_call[t].filename)
       IN cache_call' =
              [cache_call EXCEPT
                   ![t].pc = IF cached_text # NoText THEN "done" ELSE "check",
                   ![t].text = IF cached_text # NoText THEN cached_text
                               ELSE DocumentText(cache_call[t].user_id,
                                                 cache_call[t].filename)]
    /\ UNCHANGED document_texts_cache
    /\ UNCHANGED <<selVars, cfgVars, ragVars, chatVars, sqVars, concVars, uploadVars>>

\* lines 326 and 358: if user_id not in document_texts_cache
CacheCheck(t) ==
    /\ cache_call[t].pc = "check"
    /\ cache_call' =
           [cache_call EXCEPT
                ![t].pc = IF cache_call[t].user_id \notin DOMAIN document_texts_cache
                          THEN "create" ELSE "insert"]
    /\ UNCHANGED document_texts_cache
    /\ UNCHANGED <<selVars, cfgVars, ragVars, chatVars, sqVars, concVars, uploadVars>>

\* lines 327 and 358: document_texts_cache[user_id] = {}
CacheCreate(t) ==
    /\ cache_call[t].pc = "create"
    /\ document_texts_cache' = Put(document_texts_cache, cache_call[t].user_id, EmptyDict)
    /\ cache_call' = [cache_call EXCEPT ![t].pc = "insert"]
    /\ UNCHANGED <<selVars, cfgVars, ragVars, chatVars, sqVars, concVars, uploadVars>>

\* lines 328 and 359: document_texts_cache[user_id][filename] = text
CacheInsert(t) ==
    /\ cache_call[t].pc = "insert"
    /\ document_texts_cache' =
           Put(document_texts_cache, cache_call[t].user_id,
               Put(document_texts_cache[cache_call[t].user_id], cache_call[t].filename,
                   cache_call[t].text))
    /\ cache_call' = [cache_call EXCEPT ![t].pc = "done"]
    /\ UNCHANGED <<selVars, cfgVars, ragVars, chatVars, sqVars, concVars, uploadVars>>

NextCache ==
    \/ \E t \in Threads, op \in {"cache", "load"}, u \in Users, f \in Sources :
           CacheStart(t, op, u, f)
    \/ \E t \in Threads : CacheRead(t)
    \/ \E t \in Threads : CacheCheck(t)
    \/ \E t \in Threads : CacheCreate(t)
    \/ \E t \in Threads : CacheInsert(t)

(***************************************************************************)
(* Uploads and deletions of documents.  upload_file (app.py:355-394)       *)
(* records the document and adds its chunks to the index with              *)
(* add_documents_to_vector_store (ai_core.py:438-481), which tests whether *)
(* an index exists and then either adds to it or creates one;              *)
(* delete_document_endpoint (app.py:706-750) deletes the record and the    *)
(* file.  Request threads run them without a lock.                         *)
(***************************************************************************)
\* The document a request thread uploads (every upload gets a file name
\* of its own, app.py:340).
UploadedBy(t) == IF t = "t1" THEN Documents[1] ELSE Documents[2]

IdleUploadCall == [pc |-> "idle", user_id |-> None, saw_index |-> FALSE]

InitUpload ==
    /\ db_documents = {}
    /\ upload_call = [t \in Threads |-> IdleUploadCall]

\* app.py:355-381: the document is recorded, its text is cut into chunks.
UploadStart(t, user_id) ==
    /\ upload_call[t].pc = "idle"
    /\ db_documents' = db_documents \cup {<<user_id, UploadedBy(t).source>>}
    /\ upload_call' = [upload_call EXCEPT ![t] = [pc |-> "check", user_id |-> user_id,
                                                  saw_index |-> FALSE]]
    /\ UNCHANGED <<selVars, cfgVars, ragVars, chatVars, sqVars, concVars, cacheVars>>

\* ai_core.py:457: if vector_store
UploadCheck(t) ==
    /\ upload_call[t].pc = "check"
    /\ upload_call' = [upload_call EXCEPT ![t].pc = "add",
                                          ![t].saw_index = (vector_index # <<>>)]
    /\ UNCHANGED db_documents
    /\ UNCHANGED <<selVars, cfgVars, ragVars, chatVars, sqVars, concVars, cacheVars>>

\* ai_core.py:459: vector_store.add_documents(documents), or
\* ai_core.py:468: vector_store = FAISS.from_documents(documents, embeddings)
UploadAdd(t) ==
    /\ upload_call[t].pc = "add"
    /\ LET documents == create_chunks_from_text(UploadedBy(t), upload_call[t].user_id)
       IN vector_index' = IF upload_call[t].saw_index THEN vector_index \o documents
                          ELSE documents
    /\ upload_call' = [upload_call EXCEPT ![t].pc = "done"]
    /\ UNCHANGED <<db_documents, RAG_CHUNK_K, MULTI_QUERY_COUNT, llm_ready,
                   SUB_QUERY_PROMPT_TEMPLATE>>
    /\ UNCHANGED <<selVars, ragVars, chatVars, sqVars, concVars, cacheVars>>

\* app.py:706-750: the record and the file of the document are deleted;
\* the index is not touched (lines 724-728).
DeleteDocument(user_id, secured_filename) ==
    /\ <<user_id, secured_filename>> \in db_documents
    /\ db_documents' = db_documents \ {<<user_id, secured_filename>>}
    /\ UNCHANGED upload_call
    /\ UNCHANGED <<selVars, cfgVars, ragVars, chatVars, sqVars, concVars, cacheVars>>

\* Uploads, deletions and one retrieval.
NextUpload ==
    \/ \E t \in Threads, u \in Users : UploadStart(t, u)
    \/ \E t \in Threads : UploadCheck(t)
    \/ \E t \in Threads : UploadAdd(t)
    \/ \E u \in Users, f \in Sources : DeleteDocument(u, f)
    \/ \E u \in Users, f \in Sources, resp \in SubQueryResponses :
           RagCall("what is x", u, f, resp)
    \/ \E dist \in [1..Len(vector_index) -> 1..MaxScore] : RagSearchOk(dist)
    \/ RagSearchFail
    \/ RagFinish

\* What the selector, retrieval and the orchestrator leave alone, at rest.
InitSideAtRest == InitSubQueriesAtRest /\ InitConc /\ InitCache /\ InitUpload

\* The orchestrator at rest, for the specifications that do not exercise it.
InitChatAtRest ==
    /\ SUMMARY_BUFFER_TOKEN_LIMIT = MaxTokenLimit
    /\ InitChat
    /\ InitSideAtRest

\* The selector as a request finds it: the pool of config.py:25, or none.
InitSelectorForChat ==
    /\ OLLAMA_BASE_URLS \in {<<>>, <<"http://h1:11434", "http://h2:11434">>}
    /\ last_used_ollama_url_index = -1
    /\ sel_threads = {}
    /\ sel_pc = [t \in Threads |-> "idle"]
    /\ sel_loaded = [t \in Threads |-> -1]
    /\ sel_own = [t \in Threads |-> -1]
    /\ sel_calls = [t \in Threads |-> 0]
    /\ sel_log = <<>>

\* Requests served one after the other.  initialize_ai_components
\* (ai_core.py:188-238) sets llm only with an endpoint of the pool.
Init ==
    /\ InitConfig
    /\ InitRag
    /\ InitSelectorForChat
    /\ OLLAMA_BASE_URLS = <<>> => ~llm_ready
    /\ SUMMARY_BUFFER_TOKEN_LIMIT \in MinTokenLimit..MaxTokenLimit
    /\ InitChat
    /\ InitSideAtRest

Next ==
    \/ \E u \in ChatUsers, th \in ChatThreadIds, q \in ChatQueries, f \in DocumentFilters :
           ChatNotReady(u, th, q, f)
    \/ \E u \in ChatUsers, th \in ChatThreadIds, q \in ChatQueries, f \in DocumentFilters :
           ChatStart(u, th, q, f)
    \/ \E resp \in GeneralResponses : ChatGeneral(resp)
    \/ \E resp \in SubQueryResponses : ChatRetrieve(resp)
    \/ \E dist \in [1..Len(vector_index) -> 1..MaxScore] : RagSearchOk(dist)
    \/ RagSearchFail
    \/ RagFinish
    \/ ChatRetrieved
    \/ \E resp \in SynthesisResponses : ChatSynthesize(resp)
    \/ \E ok \in BOOLEAN : ChatPersist(ok)
    \/ \E ok \in BOOLEAN : ChatCommit(ok)
    \/ \E cb_ok \in BOOLEAN : ChatNotify(cb_ok)
    \/ ChatPromptError

Spec == Init /\ [][Next]_vars

\* Requests with any of the questions of the reasoning-required test,
\* against an index that holds one document of the user.
InitQuestions ==
    /\ RAG_CHUNK_K = 1
    /\ MULTI_QUERY_COUNT = 0
    /\ llm_ready \in BOOLEAN
    /\ SUB_QUERY_PROMPT_TEMPLATE = WellFormedTemplate
    /\ vector_index = create_chunks_from_text(Documents[1], "u1")
    /\ InitRag
    /\ InitSelectorAtRest
    /\ SUMMARY_BUFFER_TOKEN_LIMIT = MaxTokenLimit
    /\ InitChat
    /\ InitSideAtRest

NextQuestions ==
    \/ \E u \in ChatUsers, th \in ChatThreadIds, q \in ReasoningQuestions,
          f \in DocumentFilters : ChatNotReady(u, th, q, f)
    \/ \E u \in ChatUsers, th \in ChatThreadIds, q \in ReasoningQuestions,
          f \in DocumentFilters : ChatStart(u, th, q, f)
    \/ \E resp \in GeneralResponses : ChatGeneral(resp)
    \/ \E resp \in SubQueryResponses : ChatRetrieve(resp)
    \/ \E dist \in [1..Len(vector_index) -> 1..MaxScore] : RagSearchOk(dist)
    \/ RagSearchFail
    \/ RagFinish
    \/ ChatRetrieved
    \/ \E resp \in SynthesisResponses : ChatSynthesize(resp)
    \/ \E ok \in BOOLEAN : ChatPersist(ok)
    \/ \E ok \in BOOLEAN : ChatCommit(ok)
    \/ \E cb_ok \in BOOLEAN : ChatNotify(cb_ok)
    \/ ChatPromptError

SpecQuestions == InitQuestions /\ [][NextQuestions]_vars

\* Requests whose answers cite passages, or are blank, against an index
\* that holds both documents of the user, so that a context map has one or
\* two entries.
InitCitations ==
    /\ RAG_CHUNK_K = MaxK
    /\ MULTI_QUERY_COUNT = 0
    /\ llm_ready \in BOOLEAN
    /\ SUB_QUERY_PROMPT_TEMPLATE = WellFormedTemplate
    /\ vector_index = add_documents_to_vector_store(<<"u1", "u1">>, 2)
    /\ InitRag
    /\ InitSelectorAtRest
    /\ SUMMARY_BUFFER_TOKEN_LIMIT = MaxTokenLimit
    /\ InitChat
    /\ InitSideAtRest

NextCitations ==
    \/ \E u \in ChatUsers, th \in ChatThreadIds, q \in ChatQueries,
          f \in DocumentFilters : ChatNotReady(u, th, q, f)
    \/ \E u \in ChatUsers, th \in ChatThreadIds, q \in ChatQueries,
          f \in DocumentFilters : ChatStart(u, th, q, f)
    \/ \E resp \in GeneralResponses : ChatGeneral(resp)
    \/ \E resp \in SubQueryResponses : ChatRetrieve(resp)
    \/ \E dist \in [1..Len(vector_index) -> 1..MaxScore] : RagSearchOk(dist)
    \/ RagSearchFail
    \/ RagFinish
    \/ ChatRetrieved
    \/ \E resp \in CitationResponses \cup SynthesisResponses : ChatSynthesize(resp)
    \/ \E ok \in BOOLEAN : ChatPersist(ok)
    \/ \E ok \in BOOLEAN : ChatCommit(ok)
    \/ \E cb_ok \in BOOLEAN : ChatNotify(cb_ok)
    \/ ChatPromptError

SpecCitations == InitCitations /\ [][NextCitations]_vars

\* Two concurrent requests on the thread "th1" of user "u1".
InitChatConc ==
    /\ InitRagAtRest
    /\ InitSelectorAtRest
    /\ SUMMARY_BUFFER_TOKEN_LIMIT \in MinTokenLimit..MaxTokenLimit
    /\ InitChat
    /\ InitSideAtRest

SpecChatConc == InitChatConc /\ [][NextConc]_vars

\* Request threads on the cache of document texts.
InitCacheConc ==
    /\ InitRagAtRest
    /\ InitSelectorAtRest
    /\ InitChatAtRest

SpecCache == InitCacheConc /\ [][NextCache]_vars

\* Request threads that upload and delete documents, and one retrieval,
\* starting without an index.
InitUploadConc ==
    /\ RAG_CHUNK_K = MaxK
    /\ MULTI_QUERY_COUNT = 0
    /\ llm_ready = TRUE
    /\ SUB_QUERY_PROMPT_TEMPLATE = WellFormedTemplate
    /\ vector_index = <<>>
    /\ InitRag
    /\ InitSelectorAtRest
    /\ InitChatAtRest

SpecUpload == InitUploadConc /\ [][NextUpload]_vars

\* Sequential use: one thread calls the selector again and again.
InitSelectorSeq == InitSelector({"t1"}) /\ InitRagAtRest /\ InitChatAtRest
SpecSelector == InitSelectorSeq /\ [][NextSelector]_vars

\* Concurrent use: every request thread calls the selector.
InitSelectorConc == InitSelector(Threads) /\ InitRagAtRest /\ InitChatAtRest

\* Retrieval alone: perform_rag_search called once with any arguments.
InitRagOnly == InitConfig /\ InitRag /\ InitSelectorAtRest /\ InitChatAtRest
SpecRag == InitRagOnly /\ [][NextRag]_vars
SpecSelectorConc == InitSelectorConc /\ [][NextSelector]_vars

(***************************************************************************)
(* generate_sub_queries called on its own, with any question, any          *)
(* MULTI_QUERY_COUNT, any template and any model output.                   *)
(***************************************************************************)
\* Questions passed to generate_sub_queries.
SubQueryQuestions == {"what is x", "about x", " "}

\* Lines a model output is made of: an echo of a question, lines with and
\* without surrounding blanks, a blank line.
SubQueryLines == {"what is x", "about x", " about x ", "y", " "}

\* Outcomes of the model call of line 506: it raises, or it returns text of
\* up to MaxLines lines.
SubQueryOutcomes ==
    {[raised |-> TRUE, lines |-> <<>>]}
        \cup {[raised |-> FALSE, lines |-> l] : l \in SeqsUpTo(SubQueryLines, MaxLines)}

\* Input variables a sub-query prompt template may declare.
TemplateChoices == {WellFormedTemplate, {"query"}}

\* One call of generate_sub_queries.
GenerateSubQueries(query, resp) ==
    /\ sq_pc = "idle"
    /\ sq_query' = query
    /\ sq_response' = resp
    /\ sq_result' = generate_sub_queries(query, resp)
    /\ sq_pc' = "done"
    /\ UNCHANGED <<selVars, cfgVars, ragVars, chatVars, concVars, cacheVars, uploadVars>>

InitSubQueries ==
    /\ RAG_CHUNK_K = 1
    /\ MULTI_QUERY_COUNT \in -1..MaxSubQueryCount
    /\ llm_ready \in BOOLEAN
    /\ SUB_QUERY_PROMPT_TEMPLATE \in TemplateChoices
    /\ vector_index = <<>>
    /\ InitRag
    /\ InitSelectorAtRest
    /\ SUMMARY_BUFFER_TOKEN_LIMIT = MaxTokenLimit
    /\ InitChat
    /\ InitSubQueriesAtRest
    /\ InitConc
    /\ InitCache
    /\ InitUpload

NextSubQueries ==
    \E query \in SubQueryQuestions, resp \in SubQueryOutcomes :
        GenerateSubQueries(query, resp)

SpecSubQueries == InitSubQueries /\ [][NextSubQueries]_vars

(***************************************************************************)
(* Claims about retrieval (perform_rag_search).  They are stated on the    *)
(* candidates collected over all sub-queries and on what the call returns. *)
(***************************************************************************)
\* The candidates collected, as a set of positions.
Collected == 1..Len(all_retrieved_docs_with_scores)
CandAt(i) == all_retrieved_docs_with_scores[i]

\* The filter in force: none for None and for the general placeholder.
FilterInForce == IF rag_filter \in {None, GENERAL_QUERY_PLACEHOLDER} THEN None ELSE rag_filter

\* Positions of the collected candidates the caller may see.
Eligible ==
    {i \in Collected :
        /\ CandAt(i).doc.user_id = rag_user
        /\ FilterInForce # None => CandAt(i).doc.source = FilterInForce}

KeyOf(doc) == <<doc.source, doc.chunk_index, doc.user_id>>
EligibleKeys == {KeyOf(CandAt(i).doc) : i \in Eligible}

\* The lowest score collected for a key.
BestScore(key) ==
    CHOOSE s \in 1..MaxScore :
        /\ \E i \in Eligible : KeyOf(CandAt(i).doc) = key /\ CandAt(i).score = s
        /\ \A i \in Eligible : KeyOf(CandAt(i).doc) = key => CandAt(i).score >= s

Returned == 1..Len(context_docs)
ReturnedKeys == {KeyOf(context_docs[j]) : j \in Returned}

\* Passages of the index that belong to someone other than the caller.
ForeignContents == {vector_index[i].page_content :
                       i \in {n \in 1..Len(vector_index) : vector_index[n].user_id # rag_user}}

\* C1: owner isolation: no returned passage, context block or context map
\* entry is a passage whose user_id differs from user_id_for_filter.
C1_OwnerIsolation ==
    rag_pc = "done" =>
        /\ \A j \in Returned : context_docs[j].user_id = rag_user
        /\ \A j \in 1..Len(formatted_context_text.blocks) :
              formatted_context_text.blocks[j].content \notin ForeignContents
        /\ \A n \in DOMAIN context_docs_map :
              context_docs_map[n].content \notin ForeignContents

\* C1 witness: passages are returned although a passage of another owner
\* was among the candidates.
C1_Witness ==
    /\ rag_pc = "done"
    /\ context_docs # <<>>
    /\ context_docs_map # EmptyMap
    /\ \E i \in Collected : CandAt(i).doc.user_id # rag_user

\* C2: each RetrievalKey is returned at most once, and the candidate kept
\* for it carries the minimum score collected for that key over all
\* sub-queries.
C2_Deduplication ==
    rag_pc = "done" =>
        /\ \A j, k \in Returned :
              KeyOf(context_docs[j]) = KeyOf(context_docs[k]) => j = k
        /\ Len(final_context_docs_with_scores) = Len(context_docs)
        /\ \A j \in Returned :
              /\ final_context_docs_with_scores[j].doc = context_docs[j]
              /\ KeyOf(context_docs[j]) \in EligibleKeys
              /\ final_context_docs_with_scores[j].score = BestScore(KeyOf(context_docs[j]))

\* C2 witness: a returned passage was retrieved by two sub-queries with
\* different scores.
C2_Witness ==
    /\ rag_pc = "done"
    /\ \E i, k \in Eligible :
          /\ i < k
          /\ KeyOf(CandAt(i).doc) = KeyOf(CandAt(k).doc)
          /\ CandAt(i).score < CandAt(k).score
          /\ KeyOf(CandAt(i).doc) \in ReturnedKeys

\* C3: the returned passages are in non-decreasing score order, there are
\* min(k, number of eligible keys) of them, and no dropped eligible key has
\* a strictly lower best score than a returned one.
C3_RankingTruncation ==
    rag_pc = "done" =>
        /\ Len(context_docs) <= RAG_CHUNK_K
        /\ Len(context_docs) =
               IF Cardinality(EligibleKeys) < RAG_CHUNK_K
               THEN Cardinality(EligibleKeys) ELSE RAG_CHUNK_K
        /\ \A j \in 1..Len(final_context_docs_with_scores) - 1 :
              final_context_docs_with_scores[j].score
                  <= final_context_docs_with_scores[j + 1].score
        /\ \A key \in EligibleKeys \ ReturnedKeys :
              \A j \in 1..Len(final_context_docs_with_scores) :
                  BestScore(key) >= final_context_docs_with_scores[j].score

\* C3 witness: more eligible keys than k; a candidate collected later with a
\* lower score is returned and one collected earlier with a higher score is
\* dropped.
C3_Witness ==
    /\ rag_pc = "done"
    /\ Cardinality(EligibleKeys) > RAG_CHUNK_K
    /\ context_docs # <<>>
    /\ \E i, j \in Eligible :
          /\ i < j
          /\ CandAt(i).score > CandAt(j).score
          /\ KeyOf(CandAt(j).doc) \in ReturnedKeys
          /\ KeyOf(CandAt(i).doc) \notin ReturnedKeys
          /\ BestScore(KeyOf(CandAt(i).doc))
                 > final_context_docs_with_scores[Len(final_context_docs_with_scores)].score

\* C4: with a document_filter that is neither None nor the general
\* placeholder, every returned passage, context block and map entry has
\* source equal to document_filter.
C4_DocumentScoping ==
    (rag_pc = "done" /\ rag_filter \notin {None, GENERAL_QUERY_PLACEHOLDER}) =>
        /\ \A j \in Returned : context_docs[j].source = rag_filter
        /\ \A j \in 1..Len(formatted_context_text.blocks) :
              formatted_context_text.blocks[j].source = rag_filter
        /\ \A n \in DOMAIN context_docs_map : context_docs_map[n].source = rag_filter

\* C4 witness: a scoped call returns passages while a passage of the same
\* owner from another document was among the candidates.
C4_Witness ==
    /\ rag_pc = "done"
    /\ rag_filter \in Sources
    /\ context_docs # <<>>
    /\ \E i \in Collected :
          CandAt(i).doc.user_id = rag_user /\ CandAt(i).doc.source # rag_filter

\* C7: for a non-empty result of length m the keys of the context map are
\* exactly 1..m and entry i (and block i of the context text) describes the
\* passage at position i-1 of the ranked result.
C7_CitationNumbering ==
    (rag_pc = "done" /\ context_docs # <<>>) =>
        /\ DOMAIN context_docs_map = 1..Len(context_docs)
        /\ Len(formatted_context_text.blocks) = Len(context_docs)
        /\ \A n \in 1..Len(context_docs) :
              /\ context_docs_map[n] =
                     [source |-> final_context_docs_with_scores[n].doc.source,
                      chunk_index |-> final_context_docs_with_scores[n].doc.chunk_index,
                      content |-> final_context_docs_with_scores[n].doc.page_content]
              /\ formatted_context_text.blocks[n].citation_index = n
              /\ formatted_context_text.blocks[n].content = context_docs[n].page_content

\* C7 witness: a result of two passages from different positions.
C7_Witness ==
    /\ rag_pc = "done"
    /\ Len(context_docs) >= 2
    /\ context_docs[1] # context_docs[2]

C6_NoLostUpdate ==
    (num_urls > 0 /\ \A t \in Threads : sel_pc[t] = "idle") =>
        /\ Len(sel_log) > 0 =>
              last_used_ollama_url_index = (Len(sel_log) - 1) % num_urls
        /\ \A i \in 1..Len(sel_log) : sel_log[i].pos = sel_log[i].own

(***************************************************************************)
(* Claims about the orchestrator (process_chat_query_with_rag_and_history),*)
(* stated on a call that has ended (req_pc = "done") or is under way.      *)
(***************************************************************************)
\* The call under way, or just ended, is in general mode / document mode.
GeneralRequest ==
    req_pc # "idle" /\ req_document_filter \in {None, GENERAL_QUERY_PLACEHOLDER}
DocumentRequest ==
    req_pc # "idle" /\ req_document_filter \in Sources

\* The last message the store holds for the thread of the call.
LastStored ==
    LET thread == SelectSeq(db_messages,
                            LAMBDA msg : /\ msg.user_id = req_user_id
                                         /\ msg.thread_id = req_thread_id)
    IN thread[Len(thread)]

\* Contents of the indexed passages that belong to another user.
ForeignToRequest ==
    {vector_index[i].page_content :
        i \in {j \in 1..Len(vector_index) : vector_index[j].user_id # req_user_id}}

\* C8: a document-scoped request whose retrieval collected no passage of
\* the requesting user and the targeted document ends by returning the
\* fixed "does not contain enough information" answer with empty
\* references; no content of another owner is in a prompt or in the answer,
\* and the answering model is not invoked.
C8_NoContextFound ==
    (req_pc = "done" /\ DocumentRequest /\ req_retrieved /\ ~req_had_candidate) =>
        /\ req_result.kind = "returned"
        /\ req_result.answer = DocNotEnoughAnswer(req_document_filter)
        /\ req_result.references = NoReferences
        /\ n_model_calls = 0
        /\ final_prompt = NoPrompt
        /\ \A j \in 1..Len(context_text.blocks) :
               context_text.blocks[j].content \notin ForeignToRequest

\* C9: a request whose document_filter is None or the general placeholder
\* never enters perform_rag_search (no query expansion, no index search),
\* its prompt carries the conversation history and no retrieved context,
\* and it ends by returning empty references.
C9_ModeSelection ==
    GeneralRequest =>
        /\ rag_pc = "idle"
        /\ ~req_retrieved
        /\ req_context_docs_map = EmptyMap
        /\ final_prompt.kind \in {"none", "general"}
        /\ final_prompt.context = NoContext
        /\ final_prompt.kind = "general" =>
               final_prompt.chat_history = chat_history_for_prompt
        /\ req_pc = "done" =>
               /\ req_result.kind = "returned"
               /\ req_result.references = NoReferences

\* C10: a request that met a backend failure after its prompt was built (no
\* endpoint, the model call raised or timed out, the output could not be
\* processed) ends by returning an error text with empty references, that
\* text is the assistant turn stored last in the thread, and the call does
\* not raise.
C10_BackendFailure ==
    (req_pc = "done" /\ req_failure # "none") =>
        /\ req_result.kind = "returned"
        /\ req_result.answer \in ErrorTexts
        /\ req_result.references = NoReferences
        /\ LastStored.sender = "bot"
        /\ LastStored.message_text = req_result.answer

\* C11: on every path (general mode, no-context early answer, synthesis)
\* and whatever a collaborator does, a call of
\* process_chat_query_with_rag_and_history that has ended has returned a
\* result tuple: it has not raised.
C11_NothingThrows ==
    req_pc = "done" => req_result.kind = "returned"

(***************************************************************************)
(* Claims about generate_sub_queries, stated on a call that has returned.  *)
(***************************************************************************)
\* The model's lines, trimmed, without the empty ones, in order.
ModelLines ==
    SelectSeq([i \in 1..Len(sq_response.lines) |-> Strip(sq_response.lines[i])],
              LAMBDA l : l # "")

\* The position at which a text comes first in the model's lines.
FirstInModelLines(text) ==
    CHOOSE i \in 1..Len(ModelLines) :
        /\ ModelLines[i] = text
        /\ \A j \in 1..(i - 1) : ModelLines[j] # text

\* C12: the list generate_sub_queries returns starts with the original
\* query, holds no text twice, holds after the query only trimmed non-empty
\* lines of the model in the order the model gave them, and is at most
\* MULTI_QUERY_COUNT + 1 long; for MULTI_QUERY_COUNT <= 0 it is [query].
C12_SubQueryShape ==
    sq_pc = "done" =>
        /\ Len(sq_result) >= 1
        /\ sq_result[1] = sq_query
        /\ \A i, j \in 1..Len(sq_result) : i < j => sq_result[i] # sq_result[j]
        /\ \A i \in 2..Len(sq_result) :
               \E p \in 1..Len(ModelLines) : ModelLines[p] = sq_result[i]
        /\ \A i, j \in 2..Len(sq_result) :
               i < j => FirstInModelLines(sq_result[i]) < FirstInModelLines(sq_result[j])
        /\ MULTI_QUERY_COUNT >= 1 => Len(sq_result) <= MULTI_QUERY_COUNT + 1
        /\ MULTI_QUERY_COUNT <= 0 => sq_result = <<sq_query>>

\* The model echoed the query, and gave more distinct other lines than
\* MULTI_QUERY_COUNT, so that the list was deduplicated and cut.
C12_Witness ==
    /\ sq_pc = "done"
    /\ llm_ready
    /\ MULTI_QUERY_COUNT >= 1
    /\ \E p \in 1..Len(ModelLines) : ModelLines[p] = sq_query
    /\ Cardinality({ModelLines[p] : p \in 1..Len(ModelLines)} \ {sq_query})
           > MULTI_QUERY_COUNT
    /\ Len(sq_result) = MULTI_QUERY_COUNT + 1

\* Lines that are empty once trimmed.
BlankLines == {"", " "}

\* C13: when the model is not initialised, or the template's input
\* variables are not the expected ones, or the model call raises, or every
\* line of the model output is blank, generate_sub_queries returns [query].
C13_ExpansionFallback ==
    (/\ sq_pc = "done"
     /\ \/ ~llm_ready
        \/ SUB_QUERY_PROMPT_TEMPLATE # {"query", "num_queries"}
        \/ sq_response.raised
        \/ \A i \in 1..Len(sq_response.lines) : sq_response.lines[i] \in BlankLines)
        => sq_result = <<sq_query>>

\* The model was called with a positive MULTI_QUERY_COUNT and answered
\* with blank lines only.
C13_Witness ==
    /\ sq_pc = "done"
    /\ llm_ready
    /\ MULTI_QUERY_COUNT >= 1
    /\ SUB_QUERY_PROMPT_TEMPLATE = {"query", "num_queries"}
    /\ ~sq_response.raised
    /\ sq_response.lines # <<>>
    /\ \A i \in 1..Len(sq_response.lines) : sq_response.lines[i] \in BlankLines
    /\ sq_result = <<sq_query>>

\* C14: when perform_rag_search has returned after a search of some
\* sub-query raised and that of another succeeded, every sub-query was
\* searched, the candidates of the successful searches were collected, and
\* the passages returned are the best-ranked RAG_CHUNK_K of the candidates
\* the caller may see: the failure gave neither the empty nor the error result.
C14_BestEffortFanOut ==
    (/\ rag_pc = "done"
     /\ search_queries # <<>>
     /\ q_failed # {}
     /\ q_failed # 1..Len(search_queries)) =>
        /\ q_idx = Len(search_queries)
        /\ all_retrieved_docs_with_scores # <<>>
        /\ formatted_context_text
               # FixedText("Error retrieving context due to an internal server error.")
        /\ ReturnedKeys \subseteq EligibleKeys
        /\ Cardinality(ReturnedKeys) = Min(RAG_CHUNK_K, Cardinality(EligibleKeys))
        /\ Eligible # {} =>
               /\ context_docs # <<>>
               /\ DOMAIN context_docs_map = 1..Len(context_docs)
               /\ formatted_context_text.blocks # <<>>
        /\ \A j \in Returned : final_context_docs_with_scores[j].score
                                   = BestScore(KeyOf(context_docs[j]))

\* The search of the first sub-query raised, that of the second succeeded,
\* and passages of it were returned.
C14_Witness ==
    /\ rag_pc = "done"
    /\ Len(search_queries) = 2
    /\ q_failed = {1}
    /\ q_idx = 2
    /\ context_docs # <<>>

\* C15: a document-scoped request against an empty index ("nothing
\* uploaded") is told so: the context text retrieval returns and the answer
\* the orchestrator returns differ from those of a request whose document
\* yields no candidate ("not in this document").
C15_DistinctEmptyMessages ==
    (/\ req_pc = "done"
     /\ DocumentRequest
     /\ req_retrieved
     /\ req_result.kind = "returned"
     /\ vector_index = <<>>) =>
        /\ context_text # FixedText(DocNotEnoughText(req_document_filter))
        /\ req_result.answer # DocNotEnoughAnswer(req_document_filter)

\* C16: with an empty index, the question "What is X?" of user u1 with no
\* document filter is answered with the fixed "no relevant context"
\* message and empty references.
C16_EmptyIndexScenario ==
    (/\ req_pc = "done"
     /\ vector_index = <<>>
     /\ req_user_id = "u1"
     /\ req_query = "What is X?"
     /\ GeneralRequest
     /\ llm_ready
     /\ req_result.kind = "returned") =>
        /\ req_result.answer
               \in {NO_CONTEXT_TEXT, "No relevant context was found."}
        /\ req_result.references = NoReferences

\* The lower-cased question holds one of the five reasoning phrases
\* ("step-by-step", "explain your reasoning", "detailed explanation",
\* "walk me through", "how does this work").
HoldsReasoningPhrase ==
    req_query \in {"Walk me through X", "Explain STEP-BY-STEP how X works",
                   "How does this work?", "Give a detailed explanation of X",
                   "Explain your reasoning about X"}

\* C17: in a request that got past the readiness test, the question
\* "Explain step by step how X works" sets requires_cot, "What is X?" does
\* not, requires_cot is set exactly when the lower-cased question holds a
\* reasoning phrase, and the synthesis prompt is of the reasoning variant
\* exactly when requires_cot is set.
C17_ReasoningRequired ==
    (req_pc # "idle" /\ llm_ready) =>
        /\ req_query = "Explain step by step how X works" => requires_cot
        /\ req_query = "What is X?" => ~requires_cot
        /\ requires_cot <=> HoldsReasoningPhrase
        /\ final_prompt.kind = "synthesis" => final_prompt.cot = requires_cot

\* The request went down the synthesis path and the model call, the parse
\* and the memory commit all succeeded (lines 818-846).
SuccessfulSynthesis ==
    /\ req_pc = "done"
    /\ final_prompt.kind = "synthesis"
    /\ req_failure \notin {"model_raised", "no_endpoint", "callback_raised"}

\* C18 (parse placeholder): when the parse of the model's output gives an
\* empty answer and some reasoning, the answer of the request is the fixed
\* placeholder; and on the successful synthesis path the answer returned
\* and the answer stored as the assistant's turn are never the empty
\* string, whatever the model returned.
C18_ParsePlaceholder ==
    /\ (/\ req_pc \in {"persist", "done"}
        /\ final_prompt.kind = "synthesis"
        /\ full_llm_response # NoResponse
        /\ full_llm_response.text \in BlankLines
        /\ full_llm_response.thinking # <<>>)
           => response_message = EMPTY_ANSWER_TEXT
    /\ SuccessfulSynthesis =>
           /\ req_result.kind = "returned"
           /\ req_result.answer # ""
           /\ LastStored.sender = "bot"
           /\ LastStored.message_text # ""
           /\ LastStored.message_text = response_message

\* A request whose model output was only reasoning has finished with the
\* placeholder as its answer, returned and stored.
C18_Witness ==
    /\ SuccessfulSynthesis
    /\ full_llm_response.text = " "
    /\ full_llm_response.thinking = <<"plan">>
    /\ req_result.answer = EMPTY_ANSWER_TEXT
    /\ LastStored.message_text = EMPTY_ANSWER_TEXT

\* The citation markers of the answer the request returned.
CitedIndices ==
    {CitationMarkers(req_result.answer)[i] :
         i \in 1..Len(CitationMarkers(req_result.answer))}

\* C19 (citation resolution): every reference returned for an answer has a
\* citation_index that is a key of the request's context map and carries
\* the source and the chunk index of that entry; no two references have the
\* same citation_index; and a marker whose number is not in the context map
\* gives no reference and no error (an answer citing only [2] with a context
\* map of one entry is returned with zero references).
C19_CitationResolution ==
    (req_pc = "done" /\ req_result.kind = "returned") =>
        LET references == req_result.references
        IN /\ \A i \in 1..Len(references) :
                  /\ references[i].citation_index \in DOMAIN req_context_docs_map
                  /\ references[i].citation_index \in CitedIndices
                  /\ references[i].source =
                         req_context_docs_map[references[i].citation_index].source
                  /\ references[i].chunk_index =
                         req_context_docs_map[references[i].citation_index].chunk_index
           /\ \A i, j \in 1..Len(references) :
                  references[i].citation_index = references[j].citation_index => i = j
           /\ (SuccessfulSynthesis /\ CitedIndices \cap DOMAIN req_context_docs_map = {})
                  => /\ references = <<>>
                     /\ req_result.answer = response_message
           /\ SuccessfulSynthesis => LastStored.references = references

\* A request whose answer cites only [2] over a context map of one entry
\* has returned that answer with no reference.
C19_Witness ==
    /\ SuccessfulSynthesis
    /\ req_result.answer = "x is y [2]"
    /\ DOMAIN req_context_docs_map = {1}
    /\ req_result.references = <<>>

\* A request whose answer repeats the marker [1] and cites [2] over a
\* context map of two entries has returned two references.
C19_WitnessRepeated ==
    /\ SuccessfulSynthesis
    /\ req_result.answer = "x [1] is y [2] as in [1]"
    /\ DOMAIN req_context_docs_map = {1, 2}
    /\ Len(req_result.references) = 2

\* The request of thread t has read the history and has not yet saved its
\* summary: it is inside its load / compute / save sequence.
InCommitSequence(t) ==
    conc_pc[t] \in {"load_summary", "answer", "commit", "save_summary"}

\* The assistant's turns among stored messages.
BotTurns(messages) == SelectSeq(messages, LAMBDA msg : msg.sender = "bot")

\* The request of thread t is about to save a summary computed from a read
\* that lacks an assistant's turn or a summary stored since by another
\* request (its own turn is the one stored after its read).
StaleSummary(t) ==
    /\ conc_pc[t] = "save_summary"
    /\ \/ Len(BotTurns(get_messages_by_thread(db_messages, "u1", "th1")))
              > Len(BotTurns(conc_raw_message_history[t])) + 1
       \/ get_thread_summary(db_summaries, "u1", "th1") # conc_thread_summary[t]

\* C20 (per-thread serialisation of the memory commit): two concurrent
\* requests on the same thread are never both inside their load-history /
\* compute-summary / save-summary sequences, so a request never saves a
\* summary computed from a read that lacks the other request's committed
\* turn or summary.
C20_SerialisedCommit ==
    /\ \A t1, t2 \in Threads :
           t1 # t2 => ~(InCommitSequence(t1) /\ InCommitSequence(t2))
    /\ \A t \in Threads : ~StaleSummary(t)

(***************************************************************************)
(* Claims about the conversation memory of a request.                      *)
(***************************************************************************)
\* The request has ended after committing its turn to the memory: the
\* commit of line 713, 727 or 835 returned.
TurnCommitted ==
    /\ req_pc = "done"
    /\ llm_ready
    /\ req_result.kind = "returned"
    /\ req_failure \notin {"model_raised", "no_endpoint", "prompt_error"}

\* The token count of the memory at the commit: what was loaded for the
\* request and the turn being committed.
TokensAtCommit ==
    get_num_tokens_from_messages(
        chat_history_for_prompt \o <<HumanMessage(req_query), AIMessage(response_message)>>)

C22_BoundedHistory ==
    final_prompt.kind \in {"general", "synthesis"} =>
        get_num_tokens_from_messages(final_prompt.chat_history)
            <= SUMMARY_BUFFER_TOKEN_LIMIT

\* The summary `new` was regenerated from the summary `old`: it condenses
\* what `old` condensed, and after it the evicted turns.
RegeneratedFrom(old, new) ==
    /\ Len(old) <= Len(new)
    /\ SubSeq(new, 1, Len(old)) = old

\* C23 (monotonic summary): every step that stores a thread summary stores
\* one regenerated from the summary stored before it together with evicted
\* turns; no step replaces a non-empty stored summary by an empty one or
\* by one computed without the stored summary.
C23_MonotonicSummary ==
    [][\A key \in DOMAIN db_summaries :
           RegeneratedFrom(db_summaries[key], db_summaries'[key])]_vars

\* The request has ended by answering the user: with the general answer,
\* the no-context answer, or the synthesised answer.
UserAnswered ==
    /\ TurnCommitted
    /\ req_failure # "callback_raised"

\* The messages the store holds for the thread of the request.
ThreadOfRequest == get_messages_by_thread(db_messages, req_user_id, req_thread_id)

C25_NoAutomaticRetry ==
    /\ n_selector_calls <= 1
    /\ n_model_calls <= n_selector_calls
    /\ (req_pc = "done" /\ req_failure = "model_raised") =>
           /\ n_selector_calls = 1
           /\ n_model_calls = 1
           /\ LastStored.sender = "bot"
           /\ LastStored.message_text \in ErrorTexts

\* A request in document mode whose model call failed has ended with the
\* error text, after one selection and one invocation.
C25_Witness ==
    /\ req_pc = "done"
    /\ req_failure = "model_raised"
    /\ final_prompt.kind = "synthesis"
    /\ full_llm_response = NoResponse
    /\ n_model_calls = 1
    /\ req_result.answer = SYNTHESIS_ERROR_TEXT

\* C26 (the cache under concurrent use): the text a finished call of
\* cache_document_text or get_document_text_from_cache_or_load inserted or
\* returned for (user, file name) is the text a lookup of (user, file name)
\* finds, and every text the cache holds under (user, file name) is the
\* text of that user's file.
C26_CacheSafe ==
    /\ \A t \in Threads :
           cache_call[t].pc = "done" =>
               CachedText(document_texts_cache, cache_call[t].user_id,
                          cache_call[t].filename) = cache_call[t].text
    /\ \A u \in DOMAIN document_texts_cache :
           \A f \in DOMAIN document_texts_cache[u] :
               document_texts_cache[u][f] = DocumentText(u, f)

\* One sequence is the beginning of another.
IsPrefixOf(head, whole) ==
    /\ Len(head) <= Len(whole)
    /\ SubSeq(whole, 1, Len(head)) = head

\* C27 (the index only grows): no step removes or alters an indexed
\* passage; every step leaves the passages the index held in place and at
\* most adds passages after them.
C27_IndexOnlyGrows == [][IsPrefixOf(vector_index, vector_index')]_vars

\* The turns of the thread that were loaded for the request at line 680
\* (the stored summary, when there is one, is put in front of them).
LoadedTurns == SelectSeq(chat_history_for_prompt, LAMBDA msg : msg.covers = <<>>)

\* The assistant's turns among the turns loaded for the request.
LoadedBotTurns == SelectSeq(LoadedTurns, LAMBDA msg : msg.role = "ai")

\* The request has persisted the user's turn and has returned.
PersistedAndReturned ==
    /\ req_pc = "done"
    /\ llm_ready
    /\ req_result.kind = "returned"

\* C28 (one assistant turn per request): a call that persisted the user
\* turn and returned has persisted exactly one assistant message for the
\* thread: the thread holds one assistant turn more than it held when the
\* request loaded it.
C28_OneAssistantTurn ==
    PersistedAndReturned =>
        Len(BotTurns(ThreadOfRequest)) = Len(LoadedBotTurns) + 1

\* The user's turns among stored messages.
UserTurns(messages) == SelectSeq(messages, LAMBDA msg : msg.sender = "user")

\* The user's turns among the messages of a conversation history.
HumanTurns(history) ==
    SelectSeq(history, LAMBDA msg : msg.role = "human" /\ msg.covers = <<>>)

\* C29 (the history excludes the current question): the history placed in
\* the prompt holds the turns persisted by earlier requests of the thread
\* only, so it holds one user turn fewer than the thread, whose last user
\* turn is the current question.
C29_HistoryExcludesQuestion ==
    final_prompt.kind \in {"general", "synthesis"} =>
        Len(HumanTurns(final_prompt.chat_history)) + 1 = Len(UserTurns(ThreadOfRequest))

\* The summary the store held for the thread when the request loaded it
\* (line 688): it was put in front of the loaded history at line 690.
SummaryAtStart ==
    IF chat_history_for_prompt # <<>> /\ chat_history_for_prompt[1].covers # <<>>
    THEN chat_history_for_prompt[1].covers
    ELSE <<>>

\* The request has ended in an error outcome: the prompt could not be
\* built, no endpoint was available, or the model call or the processing
\* after it failed.
ErrorOutcome ==
    /\ PersistedAndReturned
    /\ req_failure \in {"prompt_error", "no_endpoint", "model_raised", "callback_raised"}

\* C30 (the summary is untouched on failure): when a request has ended in
\* an error outcome, the summary the store holds for the thread is the one
\* it held before the request.
C30_SummaryUntouched ==
    ErrorOutcome =>
        get_thread_summary(db_summaries, req_user_id, req_thread_id) = SummaryAtStart

====
